---- MODULE Spec2Model ----
(***************************************************************************)
(* kro-actions-runner: the runner lifecycle (CreateResources,              *)
(* WaitForResourceGraph, DeleteResources of internal/kro_runner.go), the   *)
(* run function of cmd/kar/app/root.go that sequences them, and main() of  *)
(* cmd/kar/main.go with its signal-triggered cleanup goroutine.            *)
(*                                                                         *)
(* Strings that the code builds or transforms (kinds, resource names) are  *)
(* sequences of characters; error values are sequences of messages, the    *)
(* last one being the cause (errors.Wrap prepends a message).              *)
(***************************************************************************)
EXTENDS Integers, Sequences, FiniteSets, TLC

\* ------------------------------------------------------------------ bounds
\* Longest template store (number of ResourceGraphDefinitions in the cluster).
MaxTemplates == 2
\* Most non-terminal watch events delivered to one WaitForResourceGraph call.
MaxEvents == 2
\* Longest value of the environment variable KAR_CLEANUP_TIMEOUT.
MaxEnvLen == 3
\* Longest kind given to toResourceName on its own.
MaxKindLen == 3

\* ------------------------------------------------------------------ errors
Nil == <<>>
NewError(msg) == <<msg>>
Wrap(err, msg) == <<msg>> \o err

ErrEmptyRunnerName == NewError("empty runner name")
ErrEmptyJitConfig == NewError("empty JIT config")
ErrRunnerFailed == NewError("runner execution failed")
\* Errors of the collaborators (context, API server).
ContextCanceled == NewError("context canceled")
DeadlineExceeded == NewError("context deadline exceeded")
RemoteError == NewError("api error")
NotFound == NewError("not found")
AlreadyExists == NewError("already exists")
\* fmt.Errorf values of findRGDByLabel and of the watch loop.
ErrNoRGD == NewError("no RGD found with label")
ErrMultipleRGDs == NewError("multiple RGDs found with label, expected exactly one")
ErrMissingKind == NewError("RGD missing spec.schema.kind")
ErrWatch == NewError("watch error")
\* A result slot that no operation has filled yet.
Unset == <<"<unset>">>

\* ------------------------------------------------------------------ values
Absent == "<absent>"
ScaleSetName == "ss"
\* The namespace NewKRORunner was given.
Namespace == "default"
\* The kind declared by the templates of the model ("Pod" stands for PodRunner).
KindPod == <<"P", "o", "d">>
\* The kind a template declares after it has been replaced ("VM" for VMRunner).
KindVM == <<"V", "M">>
RunnerNames == {"", "r1"}
JitConfigs == {"", "cfg"}
Threads == {"main", "cleanup"}

\* A template (RGD): its scale-set label and spec.schema.kind, if it has one.
TemplateItems ==
  { [label |-> "ss", hasKind |-> TRUE, kind |-> KindPod],
    [label |-> "ss", hasKind |-> FALSE, kind |-> <<>>],
    [label |-> "other", hasKind |-> TRUE, kind |-> KindPod] }
Stores == UNION { [1..n -> TemplateItems] : n \in 0..MaxTemplates }

\* strings.ToLower on one character.
ToLowerChar(c) ==
  CASE c = "P" -> "p"
    [] c = "R" -> "r"
    [] c = "V" -> "v"
    [] c = "M" -> "m"
    [] OTHER -> c

toResourceName_KeepsCase(kind) == kind \o <<"s">>

\* toResourceName: lowercase + "s".
toResourceName(kind) == [i \in 1..Len(kind) |-> ToLowerChar(kind[i])] \o <<"s">>

\* The kinds toResourceName is given on its own: an upper-case letter, its
\* lower-case letter and the letter toResourceName appends.
KindChars == {"P", "p", "s"}
Kinds == UNION { [1..k -> KindChars] : k \in 0..MaxKindLen }

\* The server side of List with LabelSelector "<rgdLabelKey>=<value>".
ListByLabel(store, value) == SelectSeq(store, LAMBDA t : t.label = value)

\* ------------------------------------------------------------------ discovery
NoInfo == <<>>

findRGDByLabel_FirstOfMany(listErr, items) ==
  IF listErr # Nil THEN [info |-> NoInfo, err |-> Wrap(listErr, "failed to list RGDs")]
  ELSE IF Len(items) = 0 THEN [info |-> NoInfo, err |-> ErrNoRGD]
  ELSE IF ~items[1].hasKind THEN [info |-> NoInfo, err |-> ErrMissingKind]
  ELSE [info |-> <<items[1].kind>>, err |-> Nil]

\* findRGDByLabel after the List call returned (listErr, items): the RGDInfo
\* (a one-element sequence holding Kind, NoInfo for a nil pointer) and the error.
findRGDByLabel(listErr, items) ==
  IF listErr # Nil THEN [info |-> NoInfo, err |-> Wrap(listErr, "failed to list RGDs")]
  ELSE IF Len(items) = 0 THEN [info |-> NoInfo, err |-> ErrNoRGD]
  ELSE IF Len(items) > 1 THEN [info |-> NoInfo, err |-> ErrMultipleRGDs]
  ELSE IF ~items[1].hasKind THEN [info |-> NoInfo, err |-> ErrMissingKind]
  ELSE [info |-> <<items[1].kind>>, err |-> Nil]

\* ------------------------------------------------------------------ validation
ValidateInputs_JitFirst(runnerName, jitConfig) ==
  IF jitConfig = "" THEN ErrEmptyJitConfig
  ELSE IF runnerName = "" THEN ErrEmptyRunnerName
  ELSE Nil

\* The two length checks at the head of CreateResources.
ValidateInputs(runnerName, jitConfig) ==
  IF runnerName = "" THEN ErrEmptyRunnerName
  ELSE IF jitConfig = "" THEN ErrEmptyJitConfig
  ELSE Nil

\* ------------------------------------------------------------------ watch events
\* type "" with isObj FALSE is the zero event read from a closed channel.
CondsChoices ==
  { <<>>,
    << [type |-> "ResourcesReady", status |-> "False"] >>,
    << [type |-> "ResourcesReady", status |-> "True"] >>,
    << [type |-> "Ready", status |-> "True"], [type |-> "ResourcesReady", status |-> "True"] >> }
PodChoices ==
  { [podFound |-> FALSE, phase |-> ""] }
  \cup [podFound : {TRUE}, phase : {"", "Succeeded", "Failed", "Running"}]
StateChoices == {Absent, "PENDING", "ACTIVE", "FAILED", "DELETED"}

ObjEvent(ty, st, cs, pod) ==
  [type |-> ty, isObj |-> TRUE, state |-> st, conds |-> cs,
   podFound |-> pod.podFound, phase |-> pod.phase]
ErrorEvent ==
  [type |-> "Error", isObj |-> FALSE, state |-> Absent, conds |-> <<>>,
   podFound |-> FALSE, phase |-> ""]
ClosedEvent ==
  [type |-> "", isObj |-> FALSE, state |-> Absent, conds |-> <<>>,
   podFound |-> FALSE, phase |-> ""]
NoEvent ==
  [type |-> "<none>", isObj |-> FALSE, state |-> Absent, conds |-> <<>>,
   podFound |-> FALSE, phase |-> ""]
Events ==
  { ObjEvent("Modified", st, cs, pod) : st \in StateChoices, cs \in CondsChoices, pod \in PodChoices }
  \cup { ObjEvent("Deleted", st, <<>>, [podFound |-> FALSE, phase |-> ""]) : st \in StateChoices }
  \cup { ErrorEvent, ClosedEvent }

HandleEvent_FailedChecksPod(ev) ==
  IF ev.type = "Error" THEN [done |-> TRUE, err |-> ErrWatch]
  ELSE IF ~ev.isObj THEN [done |-> FALSE, err |-> Nil]
  ELSE IF ev.state = Absent THEN [done |-> FALSE, err |-> Nil]
  ELSE IF ev.state \in {"ACTIVE", "FAILED"} THEN
    IF \E i \in DOMAIN ev.conds :
         ev.conds[i].type = "ResourcesReady" /\ ev.conds[i].status = "True"
    THEN IF ev.podFound /\ ev.phase = "Succeeded" THEN [done |-> TRUE, err |-> Nil]
         ELSE IF ev.podFound /\ ev.phase = "Failed" THEN [done |-> TRUE, err |-> ErrRunnerFailed]
         ELSE [done |-> TRUE, err |-> Nil]
    ELSE [done |-> ev.state = "FAILED", err |-> IF ev.state = "FAILED" THEN ErrRunnerFailed ELSE Nil]
  ELSE IF ev.state = "DELETED" THEN [done |-> TRUE, err |-> Nil]
  ELSE [done |-> FALSE, err |-> Nil]

HandleEvent_DeletedKeepsWaiting(ev) ==
  IF ev.type = "Error" THEN [done |-> TRUE, err |-> ErrWatch]
  ELSE IF ~ev.isObj THEN [done |-> FALSE, err |-> Nil]
  ELSE IF ev.state = Absent THEN [done |-> FALSE, err |-> Nil]
  ELSE IF ev.state = "ACTIVE" THEN
    IF \E i \in DOMAIN ev.conds :
         ev.conds[i].type = "ResourcesReady" /\ ev.conds[i].status = "True"
    THEN IF ev.podFound /\ ev.phase = "Succeeded" THEN [done |-> TRUE, err |-> Nil]
         ELSE IF ev.podFound /\ ev.phase = "Failed" THEN [done |-> TRUE, err |-> ErrRunnerFailed]
         ELSE [done |-> TRUE, err |-> Nil]
    ELSE [done |-> FALSE, err |-> Nil]
  ELSE IF ev.state = "FAILED" THEN [done |-> TRUE, err |-> ErrRunnerFailed]
  ELSE [done |-> FALSE, err |-> Nil]

HandleEvent_UnknownStateFails(ev) ==
  IF ev.type = "Error" THEN [done |-> TRUE, err |-> ErrWatch]
  ELSE IF ~ev.isObj THEN [done |-> FALSE, err |-> Nil]
  ELSE IF ev.state = Absent THEN [done |-> FALSE, err |-> Nil]
  ELSE IF ev.state = "ACTIVE" THEN
    IF \E i \in DOMAIN ev.conds :
         ev.conds[i].type = "ResourcesReady" /\ ev.conds[i].status = "True"
    THEN IF ev.podFound /\ ev.phase = "Succeeded" THEN [done |-> TRUE, err |-> Nil]
         ELSE IF ev.podFound /\ ev.phase = "Failed" THEN [done |-> TRUE, err |-> ErrRunnerFailed]
         ELSE [done |-> TRUE, err |-> Nil]
    ELSE [done |-> FALSE, err |-> Nil]
  ELSE IF ev.state = "FAILED" THEN [done |-> TRUE, err |-> ErrRunnerFailed]
  ELSE IF ev.state = "DELETED" THEN [done |-> TRUE, err |-> Nil]
  ELSE [done |-> TRUE, err |-> NewError("unexpected state")]

HandleEvent_WatchErrorAsRunnerFailed(ev) ==
  IF ev.type = "Error" THEN [done |-> TRUE, err |-> ErrRunnerFailed]
  ELSE IF ~ev.isObj THEN [done |-> FALSE, err |-> Nil]
  ELSE IF ev.state = Absent THEN [done |-> FALSE, err |-> Nil]
  ELSE IF ev.state = "ACTIVE" THEN
    IF \E i \in DOMAIN ev.conds :
         ev.conds[i].type = "ResourcesReady" /\ ev.conds[i].status = "True"
    THEN IF ev.podFound /\ ev.phase = "Succeeded" THEN [done |-> TRUE, err |-> Nil]
         ELSE IF ev.podFound /\ ev.phase = "Failed" THEN [done |-> TRUE, err |-> ErrRunnerFailed]
         ELSE [done |-> TRUE, err |-> Nil]
    ELSE [done |-> FALSE, err |-> Nil]
  ELSE IF ev.state = "FAILED" THEN [done |-> TRUE, err |-> ErrRunnerFailed]
  ELSE IF ev.state = "DELETED" THEN [done |-> TRUE, err |-> Nil]
  ELSE [done |-> FALSE, err |-> Nil]

HandleEvent_IgnorePhase(ev) ==
  IF ev.type = "Error" THEN [done |-> TRUE, err |-> ErrWatch]
  ELSE IF ~ev.isObj THEN [done |-> FALSE, err |-> Nil]
  ELSE IF ev.state = Absent THEN [done |-> FALSE, err |-> Nil]
  ELSE IF ev.state = "ACTIVE" THEN
    IF \E i \in DOMAIN ev.conds :
         ev.conds[i].type = "ResourcesReady" /\ ev.conds[i].status = "True"
    THEN [done |-> TRUE, err |-> Nil]
    ELSE [done |-> FALSE, err |-> Nil]
  ELSE IF ev.state = "FAILED" THEN [done |-> TRUE, err |-> ErrRunnerFailed]
  ELSE IF ev.state = "DELETED" THEN [done |-> TRUE, err |-> Nil]
  ELSE [done |-> FALSE, err |-> Nil]

HandleEvent_ClosedChannelReturns(ev) ==
  IF ev.type = "Error" THEN [done |-> TRUE, err |-> ErrWatch]
  ELSE IF ~ev.isObj THEN [done |-> TRUE, err |-> NewError("watch closed")]
  ELSE IF ev.state = Absent THEN [done |-> FALSE, err |-> Nil]
  ELSE IF ev.state = "ACTIVE" THEN
    IF \E i \in DOMAIN ev.conds :
         ev.conds[i].type = "ResourcesReady" /\ ev.conds[i].status = "True"
    THEN IF ev.podFound /\ ev.phase = "Succeeded" THEN [done |-> TRUE, err |-> Nil]
         ELSE IF ev.podFound /\ ev.phase = "Failed" THEN [done |-> TRUE, err |-> ErrRunnerFailed]
         ELSE [done |-> TRUE, err |-> Nil]
    ELSE [done |-> FALSE, err |-> Nil]
  ELSE IF ev.state = "FAILED" THEN [done |-> TRUE, err |-> ErrRunnerFailed]
  ELSE IF ev.state = "DELETED" THEN [done |-> TRUE, err |-> Nil]
  ELSE [done |-> FALSE, err |-> Nil]

\* One pass of the event case of the select in WaitForResourceGraph:
\* done = the function returns (with err), otherwise the loop continues.
HandleEvent(ev) ==
  IF ev.type = "Error" THEN [done |-> TRUE, err |-> ErrWatch]
  ELSE IF ~ev.isObj THEN [done |-> FALSE, err |-> Nil]
  ELSE IF ev.state = Absent THEN [done |-> FALSE, err |-> Nil]
  ELSE IF ev.state = "ACTIVE" THEN
    IF \E i \in DOMAIN ev.conds :
         ev.conds[i].type = "ResourcesReady" /\ ev.conds[i].status = "True"
    THEN IF ev.podFound /\ ev.phase = "Succeeded" THEN [done |-> TRUE, err |-> Nil]
         ELSE IF ev.podFound /\ ev.phase = "Failed" THEN [done |-> TRUE, err |-> ErrRunnerFailed]
         ELSE [done |-> TRUE, err |-> Nil]
    ELSE [done |-> FALSE, err |-> Nil]
  ELSE IF ev.state = "FAILED" THEN [done |-> TRUE, err |-> ErrRunnerFailed]
  ELSE IF ev.state = "DELETED" THEN [done |-> TRUE, err |-> Nil]
  ELSE [done |-> FALSE, err |-> Nil]

\* ------------------------------------------------------------------ cleanup timeout
\* Durations are counted in milliseconds. The characters of the values of
\* KAR_CLEANUP_TIMEOUT: digits, unit letters, a sign and a letter of no unit.
EnvChars == {"0", "1", "5", "s", "m", "h", "x", "-"}
DigitChars == {"0", "1", "5"}
Strings(n) == UNION { [1..k -> EnvChars] : k \in 0..n }

\* os.Getenv: an unset variable reads as the empty string.
EnvValues ==
  { [set |-> FALSE, val |-> <<>>] } \cup { [set |-> TRUE, val |-> s] : s \in Strings(MaxEnvLen) }
Getenv(e) == IF e.set THEN e.val ELSE <<>>

DigitVal(c) == CASE c = "0" -> 0 [] c = "1" -> 1 [] c = "5" -> 5 [] OTHER -> 0

\* The units of time.ParseDuration that the characters can spell.
KnownUnit(u) == u \in { <<"m", "s">>, <<"s">>, <<"m">>, <<"h">> }
UnitMs(u) ==
  CASE u = <<"m", "s">> -> 1
    [] u = <<"s">> -> 1000
    [] u = <<"m">> -> 60 * 1000
    [] u = <<"h">> -> 60 * 60 * 1000
    [] OTHER -> 0

RECURSIVE DigitsLen(_)
DigitsLen(s) == IF s # <<>> /\ s[1] \in DigitChars THEN 1 + DigitsLen(Tail(s)) ELSE 0
RECURSIVE UnitLen(_)
UnitLen(s) == IF s # <<>> /\ s[1] \notin DigitChars THEN 1 + UnitLen(Tail(s)) ELSE 0
RECURSIVE ToInt(_, _)
ToInt(s, acc) == IF s = <<>> THEN acc ELSE ToInt(Tail(s), 10 * acc + DigitVal(s[1]))

ParseFail == [ok |-> FALSE, val |-> 0]

\* The loop of time.ParseDuration: one or more groups of digits and a unit.
RECURSIVE ParseGroups(_, _)
ParseGroups(s, acc) ==
  IF s = <<>> THEN [ok |-> TRUE, val |-> acc]
  ELSE LET n == DigitsLen(s)
           rest == SubSeq(s, n + 1, Len(s))
           u == UnitLen(rest)
           unit == SubSeq(rest, 1, u)
       IN IF n = 0 \/ u = 0 \/ ~KnownUnit(unit) THEN ParseFail
          ELSE ParseGroups(SubSeq(rest, u + 1, Len(rest)),
                           acc + ToInt(SubSeq(s, 1, n), 0) * UnitMs(unit))

\* time.ParseDuration: an optional sign, then "0" or groups; anything else fails.
ParseDuration(s) ==
  IF s = <<>> THEN ParseFail
  ELSE LET neg == s[1] = "-"
           body == IF neg THEN Tail(s) ELSE s
       IN IF body = <<"0">> THEN [ok |-> TRUE, val |-> 0]
          ELSE IF body = <<>> THEN ParseFail
          ELSE LET r == ParseGroups(body, 0) IN
                 IF r.ok THEN [ok |-> TRUE, val |-> IF neg THEN 0 - r.val ELSE r.val]
                 ELSE ParseFail

\* main.go: const defaultCleanupTimeout = 5 * time.Minute.
defaultCleanupTimeout == 5 * UnitMs(<<"m">>)

getCleanupTimeout_ZeroIsInvalid(e) ==
  LET val == Getenv(e) IN
    IF val # <<>> /\ ParseDuration(val).ok /\ ParseDuration(val).val # 0
    THEN ParseDuration(val).val
    ELSE defaultCleanupTimeout

\* main.go getCleanupTimeout.
getCleanupTimeout(e) ==
  LET val == Getenv(e) IN
    IF val # <<>> /\ ParseDuration(val).ok
    THEN ParseDuration(val).val
    ELSE defaultCleanupTimeout

\* A context.Context: its Err(), whether it has a deadline, the time left to the
\* deadline when ensureValidCleanupContext is called, and the root it descends from.
Ctx(root, err, hasDeadline, remaining) ==
  [root |-> root, err |-> err, hasDeadline |-> hasDeadline, remaining |-> remaining]
ContextTODO == Ctx("todo", Nil, FALSE, 0)
NoContext == Ctx("<none>", Nil, FALSE, 0)
\* The parents of main.go and of TestEnsureValidCleanupContext: a live background
\* context, a cancelled one (the signal context of main, once the signal has
\* arrived), one whose deadline passed an hour ago.
ParentContexts ==
  { Ctx("background", Nil, FALSE, 0),
    Ctx("background", ContextCanceled, FALSE, 0),
    Ctx("background", DeadlineExceeded, TRUE, 0 - UnitMs(<<"h">>)) }

\* context.WithTimeout(parent, d): a child with the earlier of the two deadlines,
\* done at once when the parent is done or the deadline is not in the future.
WithTimeout(parent, d) ==
  IF parent.hasDeadline /\ parent.remaining < d
  THEN Ctx(parent.root, parent.err, TRUE, parent.remaining)
  ELSE Ctx(parent.root,
           IF parent.err # Nil THEN parent.err
           ELSE IF d <= 0 THEN DeadlineExceeded ELSE Nil,
           TRUE, d)

\* main.go ensureValidCleanupContext.
ensureValidCleanupContext(p, e) ==
  IF p.err # Nil
  THEN WithTimeout(ContextTODO, getCleanupTimeout(e))
  ELSE WithTimeout(p, getCleanupTimeout(e))

\* ------------------------------------------------------------------ state
VARIABLES
  harness,     \* "main": main() with KRORunner; "test": run() called with a mockRunner;
               \* "direct": WaitForResourceGraph called on a KRORunner of a fresh process;
               \* "preset": DeleteResources called on a KRORunner after NewAppContext
  opts,        \* app.Opts: RunnerName, JitConfig
  mock,        \* mockRunner's createErr, waitErr, deleteErr
  rgds,        \* the template store: the ResourceGraphDefinitions of the cluster
  instances,   \* the ResourceGraph instances of the namespace: [resource, name]
  appContext,  \* the package variable appContext: <<>> (nil) or <<AppContext>>
  ctxDone,     \* the signal.NotifyContext of main has been cancelled
  sigAt,       \* where run was when the signal arrived ("none" before it)
  snap,        \* the instances of the namespace when the signal arrived
  submitted,   \* the object CreateResources passed to the create call: <<>> or <<object>>
  pc,          \* the position of each goroutine
  frame,       \* the locals of the operation each goroutine is in
  ret,         \* what CreateResources, WaitForResourceGraph, DeleteResources returned to run
  cleanupRet,  \* what DeleteResources returned to the cleanup goroutine
  runErr,      \* what run returned
  invoked,     \* the operations run has called, in order
  calls,       \* the remote calls each goroutine has issued, in order
  nEvents,     \* the non-terminal events the current watch has delivered
  scen,        \* how far the watch has followed pending, ACTIVE, ACTIVE+ready+Succeeded
  lastEvent,   \* the event the last pass of the select took (NoEvent: none, or ctx.Done())
  watcher,     \* the watch of WaitForResourceGraph: "none", "open", "stopped"
  env,         \* the environment variable KAR_CLEANUP_TIMEOUT
  parent,      \* the context passed to ensureValidCleanupContext
  hpc,         \* the position of the caller of the two cleanup helpers
  tmo,         \* what getCleanupTimeout returned
  cctx,        \* the context ensureValidCleanupContext returned
  kinds,       \* the two kinds given to toResourceName
  names        \* what toResourceName returned for each of them

vars ==
  << harness, opts, mock, rgds, instances, appContext, ctxDone, sigAt, snap, submitted, pc, frame,
     ret, cleanupRet, runErr, invoked, calls, nEvents, scen, lastEvent, watcher,
     env, parent, hpc, tmo, cctx, kinds, names >>

EmptyFrame ==
  [runnerName |-> "", secretName |-> "", items |-> <<>>, info |-> NoInfo,
   listErr |-> Unset, discErr |-> Unset]

MockErrs == {Nil, NewError("mock error")}

\* NewAppContext / the fields read through GetVMIName, GetDataVolumeName.
NewAppContext(vmiName, dataVolumeName) ==
  << [vmiName |-> vmiName, dataVolumeName |-> dataVolumeName] >>
GetVMIName(ac) == ac[1].vmiName
GetDataVolumeName(ac) == ac[1].dataVolumeName

\* The contexts a caller of the exported NewAppContext has recorded: a runner
\* name and the name of a secret, either of them possibly empty.
SecretNames == {"", "jit"}
PresetContexts == { NewAppContext(n, s) : n \in RunnerNames, s \in SecretNames }

\* The backends a process can start against: no instance, or an instance of
\* the runner's name left in the namespace by an earlier process.
Backends(runnerName) ==
  IF runnerName = "" THEN { {} }
  ELSE { {}, { [resource |-> toResourceName(KindPod), name |-> runnerName] } }

\* The state of the runner part before run starts.
RunnerIdle ==
  /\ ctxDone = FALSE
  /\ sigAt = "none"
  /\ snap = {}
  /\ submitted = <<>>
  /\ frame = [t \in Threads |-> EmptyFrame]
  /\ ret = [create |-> Unset, wait |-> Unset, delete |-> Unset]
  /\ cleanupRet = Unset
  /\ runErr = Unset
  /\ invoked = <<>>
  /\ calls = [t \in Threads |-> <<>>]
  /\ nEvents = 0
  /\ scen = "start"
  /\ lastEvent = NoEvent
  /\ watcher = "none"

\* The cleanup helpers before they are called.
HelpersIdle ==
  /\ hpc = "start"
  /\ tmo = defaultCleanupTimeout
  /\ cctx = NoContext
  /\ names = << <<>>, <<>> >>

Init ==
  /\ harness \in {"main", "test", "direct", "preset"}
  /\ env = [set |-> FALSE, val |-> <<>>]
  /\ parent = Ctx("background", Nil, FALSE, 0)
  /\ kinds = << <<>>, <<>> >>
  /\ HelpersIdle
  /\ opts \in [RunnerName : RunnerNames, JitConfig : JitConfigs]
  /\ harness \in {"direct", "preset"} => opts = [RunnerName |-> "", JitConfig |-> ""]
  /\ mock \in [createErr : MockErrs, waitErr : MockErrs, deleteErr : MockErrs]
  /\ harness # "test" => mock = [createErr |-> Nil, waitErr |-> Nil, deleteErr |-> Nil]
  /\ rgds \in Stores
  /\ harness = "test" => rgds = <<>>
  /\ pc = [t \in Threads |->
             IF t = "cleanup" THEN "blocked"
             ELSE IF harness = "direct" THEN "wait_getctx"
             ELSE IF harness = "preset" THEN "del_getctx"
             ELSE "run_start"]
  /\ appContext \in (IF harness = "preset" THEN PresetContexts ELSE { <<>> })
  /\ instances \in (IF harness = "main" THEN Backends(opts.RunnerName) ELSE { {} })
  /\ RunnerIdle

\* main() has returned: the process is gone, and its goroutines with it.
Exited == harness = "main" /\ pc["main"] = "done"

\* ctx.Err() != nil for the context goroutine t passes to its remote calls:
\* run uses main's signal context; the cleanup goroutine the fresh context of
\* ensureValidCleanupContext.
CtxCancelled(t) == t = "main" /\ ctxDone

\* The error of a remote call: the context's error when it is already
\* cancelled, otherwise whatever the API server answers.
CallErr(t, fail) ==
  IF CtxCancelled(t) THEN ContextCanceled ELSE IF fail THEN RemoteError ELSE Nil

RgdResource == <<"resourcegraphdefinitions">>
PodResource == <<"pods">>
SecretResource == <<"secrets">>

\* A remote call: the templates are listed across the cluster, every other call
\* goes through Namespace(r.namespace).
Call(o, v, res, n, e) ==
  [op |-> o, verb |-> v, resource |-> res,
   namespace |-> IF res = RgdResource THEN "" ELSE Namespace,
   name |-> n, err |-> e]
Log(t, c) == calls' = [calls EXCEPT ![t] = Append(@, c)]

\* ------------------------------------------------------------------ helpers
Goto(t, l) == pc' = [pc EXCEPT ![t] = l]
\* The harnesses that run the operations of KRORunner.
KroHarness == harness \in {"main", "direct"}
\* A goroutine can take a step only while the process is alive; a caller of a
\* single operation has the one goroutine.
Alive(t) ==
  \/ harness = "main" /\ ~Exited /\ t \in Threads
  \/ harness \in {"direct", "preset"} /\ t = "main"

helperVars == << env, parent, hpc, tmo, cctx, kinds, names >>
setup == << harness, opts, mock, rgds, helperVars >>
watchVars == << nEvents, scen, lastEvent, watcher >>

\* ------------------------------------------------------------------ the instance object
\* Pods(namespace).Get(name) when it succeeds: the pod of that name, with its UID.
GetPod(name) == [name |-> name, uid |-> << "uid", name >>]

\* time.Now(): the clock of the model is the number of remote calls issued so far.
Now == Len(calls["main"]) + Len(calls["cleanup"])

BuildInstance_JitInAnnotation(runnerName, jitConfig, scaleSetName, namespace, kind, pod, now) ==
  [ apiVersion |-> "kro.run/v1alpha1",
    kind |-> kind,
    name |-> runnerName,
    namespace |-> namespace,
    annotations |->
      [ key |-> "actions.github.com/runner-metadata",
        value |-> [ runnerName |-> runnerName,
                    scaleSetName |-> scaleSetName,
                    jitConfigSecret |-> jitConfig,
                    createdTimestamp |-> now ] ],
    labels |-> ("actions.github.com/scale-set-name" :> scaleSetName
                @@ "kro.run/runner-name" :> runnerName),
    ownerReferences |-> << [ apiVersion |-> "v1", kind |-> "Pod", name |-> pod.name,
                             uid |-> pod.uid, controller |-> FALSE ] >>,
    spec |-> [ runnerName |-> runnerName ] ]

BuildInstance_ControllerOwner(runnerName, jitConfig, scaleSetName, namespace, kind, pod, now) ==
  [ apiVersion |-> "kro.run/v1alpha1",
    kind |-> kind,
    name |-> runnerName,
    namespace |-> namespace,
    annotations |->
      [ key |-> "actions.github.com/runner-metadata",
        value |-> [ runnerName |-> runnerName,
                    scaleSetName |-> scaleSetName,
                    jitConfigSecret |-> runnerName,
                    createdTimestamp |-> now ] ],
    labels |-> ("actions.github.com/scale-set-name" :> scaleSetName
                @@ "kro.run/runner-name" :> runnerName),
    ownerReferences |-> << [ apiVersion |-> "v1", kind |-> "Pod", name |-> pod.name,
                             uid |-> pod.uid, controller |-> TRUE ] >>,
    spec |-> [ runnerName |-> runnerName ] ]

\* kro_runner.go 193-241: the instance CreateResources builds. The annotation is
\* the JSON object of lines 203-209 under its key; jitConfig is a parameter of
\* CreateResources that the construction never reads.
BuildInstance(runnerName, jitConfig, scaleSetName, namespace, kind, pod, now) ==
  [ apiVersion |-> "kro.run/v1alpha1",
    kind |-> kind,
    name |-> runnerName,
    namespace |-> namespace,
    annotations |->
      [ key |-> "actions.github.com/runner-metadata",
        value |-> [ runnerName |-> runnerName,
                    scaleSetName |-> scaleSetName,
                    jitConfigSecret |-> runnerName,
                    createdTimestamp |-> now ] ],
    labels |-> ("actions.github.com/scale-set-name" :> scaleSetName
                @@ "kro.run/runner-name" :> runnerName),
    ownerReferences |-> << [ apiVersion |-> "v1", kind |-> "Pod", name |-> pod.name,
                             uid |-> pod.uid, controller |-> FALSE ] >>,
    spec |-> [ runnerName |-> runnerName ] ]

\* ------------------------------------------------------------------ CreateResources
\* kro_runner.go 168-175: the input checks.
CreateValidate ==
  /\ harness = "main"
  /\ pc["main"] = "run_create"
  /\ LET e == ValidateInputs(opts.RunnerName, opts.JitConfig) IN
       IF e # Nil
       THEN ret' = [ret EXCEPT !.create = e] /\ Goto("main", "run_after_create")
       ELSE ret' = ret /\ Goto("main", "create_getpod")
  /\ UNCHANGED << setup, instances, appContext, ctxDone, sigAt, snap, submitted, frame, cleanupRet,
                  runErr, invoked, calls, watchVars >>

CreateGetPod_IgnoresError(fail) ==
  /\ harness = "main"
  /\ pc["main"] = "create_getpod"
  /\ LET e == CallErr("main", fail) IN
       /\ Log("main", Call("Create", "get", PodResource, opts.RunnerName, e))
       /\ ret' = ret
       /\ Goto("main", "create_list")
  /\ UNCHANGED << setup, instances, appContext, ctxDone, sigAt, snap, submitted, frame, cleanupRet,
                  runErr, invoked, watchVars >>

\* kro_runner.go 177-181: look up the orchestrator pod named runnerName.
CreateGetPod(fail) ==
  /\ harness = "main"
  /\ pc["main"] = "create_getpod"
  /\ LET e == CallErr("main", fail) IN
       /\ Log("main", Call("Create", "get", PodResource, opts.RunnerName, e))
       /\ IF e # Nil
          THEN /\ ret' = [ret EXCEPT !.create =
                            Wrap(e, "failed to get orchestrator pod for owner reference")]
               /\ Goto("main", "run_after_create")
          ELSE ret' = ret /\ Goto("main", "create_list")
  /\ UNCHANGED << setup, instances, appContext, ctxDone, sigAt, snap, submitted, frame, cleanupRet,
                  runErr, invoked, watchVars >>

\* The List call of findRGDByLabel and what findRGDByLabel makes of its answer.
Discover(t, fail) ==
  LET e == CallErr(t, fail) IN
    findRGDByLabel(e, IF e = Nil THEN ListByLabel(rgds, ScaleSetName) ELSE <<>>)

SetDisc_ReusesCreatedKind(t, fail) ==
  LET r == Discover(t, fail) IN
    frame' = [frame EXCEPT ![t].items = IF CallErr(t, fail) = Nil
                                        THEN ListByLabel(rgds, ScaleSetName) ELSE <<>>,
                           ![t].info = IF r.err = Nil /\ submitted # <<>>
                                       THEN << submitted[1].kind >> ELSE r.info,
                           ![t].listErr = CallErr(t, fail),
                           ![t].discErr = r.err]

\* The locals of findRGDByLabel's caller: the items the List call answered, the
\* RGDInfo and the error.
SetDisc(t, fail) ==
  LET r == Discover(t, fail) IN
    frame' = [frame EXCEPT ![t].items = IF CallErr(t, fail) = Nil
                                        THEN ListByLabel(rgds, ScaleSetName) ELSE <<>>,
                           ![t].info = r.info,
                           ![t].listErr = CallErr(t, fail),
                           ![t].discErr = r.err]

CreateDiscover_RetriesOnce(fail) ==
  /\ harness = "main"
  /\ pc["main"] = "create_list"
  /\ Log("main", Call("Create", "list", RgdResource, ScaleSetName, CallErr("main", fail)))
  /\ SetDisc("main", fail)
  /\ LET r == Discover("main", fail) IN
       IF r.err # Nil /\ Len(calls["main"]) < 2
       THEN ret' = ret /\ pc' = pc
       ELSE IF r.err # Nil
       THEN /\ ret' = [ret EXCEPT !.create = Wrap(r.err, "failed to discover RGD")]
            /\ Goto("main", "run_after_create")
       ELSE ret' = ret /\ Goto("main", "create_submit")
  /\ UNCHANGED << setup, instances, appContext, ctxDone, sigAt, snap, submitted, cleanupRet,
                  runErr, invoked, watchVars >>

\* kro_runner.go 183-187: template discovery.
CreateDiscover(fail) ==
  /\ harness = "main"
  /\ pc["main"] = "create_list"
  /\ Log("main", Call("Create", "list", RgdResource, ScaleSetName, CallErr("main", fail)))
  /\ SetDisc("main", fail)
  /\ LET r == Discover("main", fail) IN
       IF r.err # Nil
       THEN /\ ret' = [ret EXCEPT !.create = Wrap(r.err, "failed to discover RGD")]
            /\ Goto("main", "run_after_create")
       ELSE ret' = ret /\ Goto("main", "create_submit")
  /\ UNCHANGED << setup, instances, appContext, ctxDone, sigAt, snap, submitted, cleanupRet,
                  runErr, invoked, watchVars >>

CreateSubmit_ToleratesAlreadyExists(fail) ==
  /\ harness = "main"
  /\ pc["main"] = "create_submit"
  /\ LET target == [resource |-> toResourceName(frame["main"].info[1]),
                    name |-> opts.RunnerName]
         e == IF CtxCancelled("main") THEN ContextCanceled
              ELSE IF fail THEN RemoteError
              ELSE IF target \in instances THEN AlreadyExists
              ELSE Nil
     IN
       /\ Log("main", Call("Create", "create", target.resource, target.name, e))
       /\ IF e \notin {Nil, AlreadyExists}
          THEN /\ ret' = [ret EXCEPT !.create =
                            Wrap(e, "failed to create ResourceGraph instance")]
               /\ Goto("main", "run_after_create")
               /\ UNCHANGED instances
          ELSE /\ instances' = instances \cup {target}
               /\ ret' = ret
               /\ Goto("main", "create_record")
  /\ submitted' = << BuildInstance(opts.RunnerName, opts.JitConfig, ScaleSetName, Namespace,
                                   frame["main"].info[1], GetPod(opts.RunnerName), Now) >>
  /\ UNCHANGED << setup, appContext, ctxDone, sigAt, snap, frame, cleanupRet,
                  runErr, invoked, watchVars >>

\* kro_runner.go 193-255: build the instance and submit the create call.
CreateSubmit(fail) ==
  /\ harness = "main"
  /\ pc["main"] = "create_submit"
  /\ LET target == [resource |-> toResourceName(frame["main"].info[1]),
                    name |-> opts.RunnerName]
         e == IF CtxCancelled("main") THEN ContextCanceled
              ELSE IF fail THEN RemoteError
              ELSE IF target \in instances THEN AlreadyExists
              ELSE Nil
     IN
       /\ Log("main", Call("Create", "create", target.resource, target.name, e))
       /\ IF e # Nil
          THEN /\ ret' = [ret EXCEPT !.create =
                            Wrap(e, "failed to create ResourceGraph instance")]
               /\ Goto("main", "run_after_create")
               /\ UNCHANGED instances
          ELSE /\ instances' = instances \cup {target}
               /\ ret' = ret
               /\ Goto("main", "create_record")
  /\ submitted' = << BuildInstance(opts.RunnerName, opts.JitConfig, ScaleSetName, Namespace,
                                   frame["main"].info[1], GetPod(opts.RunnerName), Now) >>
  /\ UNCHANGED << setup, appContext, ctxDone, sigAt, snap, frame, cleanupRet,
                  runErr, invoked, watchVars >>

RecordedContext_Swapped(runnerName) == NewAppContext("", runnerName)

RecordedContext_TracksSecret(runnerName) == NewAppContext(runnerName, runnerName)

\* kro_runner.go 261: the context CreateResources records.
RecordedContext(runnerName) == NewAppContext(runnerName, "")

\* kro_runner.go 257-263: record the runner context and return nil.
CreateRecord ==
  /\ harness = "main"
  /\ pc["main"] = "create_record"
  /\ appContext' = RecordedContext(opts.RunnerName)
  /\ ret' = [ret EXCEPT !.create = Nil]
  /\ Goto("main", "run_after_create")
  /\ UNCHANGED << setup, instances, ctxDone, sigAt, snap, submitted, frame, cleanupRet,
                  runErr, invoked, calls, watchVars >>

\* ------------------------------------------------------------------ GetAppContext
GetAppContextRead_NilIsError(t) ==
  /\ Alive(t)
  /\ pc[t] \in {"wait_getctx", "del_getctx"}
  /\ IF appContext # <<>>
     THEN /\ frame' = [frame EXCEPT ![t] =
                         [EmptyFrame EXCEPT !.runnerName = GetVMIName(appContext),
                                            !.secretName = GetDataVolumeName(appContext)]]
          /\ Goto(t, IF pc[t] = "wait_getctx" THEN "wait_list" ELSE "del_list")
          /\ UNCHANGED << ret, cleanupRet >>
     ELSE /\ frame' = [frame EXCEPT ![t] = EmptyFrame]
          /\ IF pc[t] = "wait_getctx"
             THEN /\ ret' = [ret EXCEPT !.wait = NewError("no runner context")]
                  /\ cleanupRet' = cleanupRet
                  /\ Goto(t, "run_after_wait")
             ELSE IF t = "main"
             THEN /\ ret' = [ret EXCEPT !.delete = NewError("no runner context")]
                  /\ cleanupRet' = cleanupRet
                  /\ Goto(t, "run_after_delete")
             ELSE /\ cleanupRet' = NewError("no runner context")
                  /\ ret' = ret
                  /\ Goto(t, "cleanup_done")
  /\ UNCHANGED << setup, instances, appContext, ctxDone, sigAt, snap, submitted,
                  runErr, invoked, calls, watchVars >>

\* kro_runner.go 72-77, first half: read the package variable. A nil pointer
\* sends the goroutine to the lazy initialisation.
GetAppContextRead(t) ==
  /\ Alive(t)
  /\ pc[t] \in {"wait_getctx", "del_getctx"}
  /\ IF appContext # <<>>
     THEN /\ frame' = [frame EXCEPT ![t] =
                         [EmptyFrame EXCEPT !.runnerName = GetVMIName(appContext),
                                            !.secretName = GetDataVolumeName(appContext)]]
          /\ Goto(t, IF pc[t] = "wait_getctx" THEN "wait_list" ELSE "del_list")
     ELSE /\ frame' = [frame EXCEPT ![t] = EmptyFrame]
          /\ Goto(t, IF pc[t] = "wait_getctx" THEN "wait_getctx_init" ELSE "del_getctx_init")
  /\ UNCHANGED << setup, instances, appContext, ctxDone, sigAt, snap, submitted, ret, cleanupRet,
                  runErr, invoked, calls, watchVars >>

\* kro_runner.go 73-76, second half: appContext = &AppContext{} and return it.
GetAppContextInit(t) ==
  /\ Alive(t)
  /\ pc[t] \in {"wait_getctx_init", "del_getctx_init"}
  /\ appContext' = NewAppContext("", "")
  /\ frame' = [frame EXCEPT ![t] = EmptyFrame]
  /\ Goto(t, IF pc[t] = "wait_getctx_init" THEN "wait_list" ELSE "del_list")
  /\ UNCHANGED << setup, instances, ctxDone, sigAt, snap, submitted, ret, cleanupRet,
                  runErr, invoked, calls, watchVars >>

\* ------------------------------------------------------------------ WaitForResourceGraph
WaitDiscover_Verbatim(fail) ==
  /\ KroHarness
  /\ pc["main"] = "wait_list"
  /\ Log("main", Call("Wait", "list", RgdResource, ScaleSetName, CallErr("main", fail)))
  /\ SetDisc("main", fail)
  /\ LET r == Discover("main", fail) IN
       IF r.err # Nil
       THEN /\ ret' = [ret EXCEPT !.wait = IF CtxCancelled("main") THEN ContextCanceled
                                           ELSE Wrap(r.err, "failed to discover RGD for watching")]
            /\ Goto("main", "run_after_wait")
       ELSE ret' = ret /\ Goto("main", "wait_open")
  /\ UNCHANGED << setup, instances, appContext, ctxDone, sigAt, snap, submitted, cleanupRet,
                  runErr, invoked, watchVars >>

\* kro_runner.go 273-277: template discovery for the watch.
WaitDiscover(fail) ==
  /\ KroHarness
  /\ pc["main"] = "wait_list"
  /\ Log("main", Call("Wait", "list", RgdResource, ScaleSetName, CallErr("main", fail)))
  /\ SetDisc("main", fail)
  /\ LET r == Discover("main", fail) IN
       IF r.err # Nil
       THEN /\ ret' = [ret EXCEPT !.wait = Wrap(r.err, "failed to discover RGD for watching")]
            /\ Goto("main", "run_after_wait")
       ELSE ret' = ret /\ Goto("main", "wait_open")
  /\ UNCHANGED << setup, instances, appContext, ctxDone, sigAt, snap, submitted, cleanupRet,
                  runErr, invoked, watchVars >>

WaitOpen_UpdatesInstance(fail) ==
  /\ KroHarness
  /\ pc["main"] = "wait_open"
  /\ LET e == CallErr("main", fail) IN
       /\ Log("main", Call("Wait", "update", toResourceName(frame["main"].info[1]),
                           frame["main"].runnerName, e))
       /\ IF e # Nil
          THEN /\ ret' = [ret EXCEPT !.wait = Wrap(e, "failed to watch ResourceGraph instance")]
               /\ Goto("main", "run_after_wait")
          ELSE ret' = ret /\ Goto("main", "wait_loop")
       /\ watcher' = IF e # Nil THEN watcher ELSE "open"
  /\ nEvents' = 0
  /\ scen' = "start"
  /\ UNCHANGED << setup, instances, appContext, ctxDone, sigAt, snap, submitted, frame, cleanupRet,
                  runErr, invoked, lastEvent >>

WaitOpen_NoFieldSelector(fail) ==
  /\ KroHarness
  /\ pc["main"] = "wait_open"
  /\ LET e == CallErr("main", fail) IN
       /\ Log("main", Call("Wait", "watch", toResourceName(frame["main"].info[1]), "", e))
       /\ IF e # Nil
          THEN /\ ret' = [ret EXCEPT !.wait = Wrap(e, "failed to watch ResourceGraph instance")]
               /\ Goto("main", "run_after_wait")
          ELSE ret' = ret /\ Goto("main", "wait_loop")
       /\ watcher' = IF e # Nil THEN watcher ELSE "open"
  /\ nEvents' = 0
  /\ scen' = "start"
  /\ UNCHANGED << setup, instances, appContext, ctxDone, sigAt, snap, submitted, frame, cleanupRet,
                  runErr, invoked, lastEvent >>

\* kro_runner.go 279-292: open the watch on metadata.name=runnerName.
WaitOpen(fail) ==
  /\ KroHarness
  /\ pc["main"] = "wait_open"
  /\ LET e == CallErr("main", fail) IN
       /\ Log("main", Call("Wait", "watch", toResourceName(frame["main"].info[1]),
                           frame["main"].runnerName, e))
       /\ IF e # Nil
          THEN /\ ret' = [ret EXCEPT !.wait = Wrap(e, "failed to watch ResourceGraph instance")]
               /\ Goto("main", "run_after_wait")
          ELSE ret' = ret /\ Goto("main", "wait_loop")
       /\ watcher' = IF e # Nil THEN watcher ELSE "open"
  /\ nEvents' = 0
  /\ scen' = "start"
  /\ UNCHANGED << setup, instances, appContext, ctxDone, sigAt, snap, submitted, frame, cleanupRet,
                  runErr, invoked, lastEvent >>

\* The observer of the scenario pending, ACTIVE, ACTIVE + ResourcesReady=True + Succeeded.
ScenNext(s, ev) ==
  LET ready == \E i \in DOMAIN ev.conds :
                 ev.conds[i].type = "ResourcesReady" /\ ev.conds[i].status = "True"
  IN
    IF s = "start" /\ ev.isObj /\ ev.state = "PENDING" THEN "pending"
    ELSE IF s = "pending" /\ ev.isObj /\ ev.state = "ACTIVE" /\ ~ready THEN "active"
    ELSE IF s = "active" /\ ev.isObj /\ ev.state = "ACTIVE" /\ ready
            /\ ev.podFound /\ ev.phase = "Succeeded" THEN "succeeded"
    ELSE "off"

\* kro_runner.go 292-359: the select takes an event from the result channel;
\* on return the deferred watcher.Stop() runs.
\* (Go's select picks any ready case, so this is enabled after cancellation too.)
WaitEvent(ev) ==
  /\ KroHarness
  /\ pc["main"] = "wait_loop"
  /\ LET h == HandleEvent(ev) IN
       /\ h.done \/ nEvents < MaxEvents
       /\ IF h.done
          THEN /\ ret' = [ret EXCEPT !.wait = h.err]
               /\ nEvents' = nEvents
               /\ watcher' = "stopped"
               /\ Goto("main", "run_after_wait")
          ELSE /\ ret' = ret
               /\ nEvents' = nEvents + 1
               /\ watcher' = watcher
               /\ pc' = pc
  /\ lastEvent' = ev
  /\ scen' = ScenNext(scen, ev)
  /\ UNCHANGED << setup, instances, appContext, ctxDone, sigAt, snap, submitted, frame, cleanupRet,
                  runErr, invoked, calls >>

WaitCancel_Wrapped ==
  /\ KroHarness
  /\ pc["main"] = "wait_loop"
  /\ ctxDone
  /\ ret' = [ret EXCEPT !.wait = Wrap(ContextCanceled, "watch cancelled")]
  /\ lastEvent' = NoEvent
  /\ watcher' = "stopped"
  /\ Goto("main", "run_after_wait")
  /\ UNCHANGED << setup, instances, appContext, ctxDone, sigAt, snap, submitted, frame, cleanupRet,
                  runErr, invoked, calls, nEvents, scen >>

\* kro_runner.go 292, 361-363: the select takes ctx.Done(); the deferred
\* watcher.Stop() runs on return.
WaitCancel ==
  /\ KroHarness
  /\ pc["main"] = "wait_loop"
  /\ ctxDone
  /\ ret' = [ret EXCEPT !.wait = ContextCanceled]
  /\ lastEvent' = NoEvent
  /\ watcher' = "stopped"
  /\ Goto("main", "run_after_wait")
  /\ UNCHANGED << setup, instances, appContext, ctxDone, sigAt, snap, submitted, frame, cleanupRet,
                  runErr, invoked, calls, nEvents, scen >>

\* ------------------------------------------------------------------ DeleteResources
DeleteDiscover_SkipsInstance(t, fail) ==
  /\ Alive(t)
  /\ pc[t] = "del_list"
  /\ Log(t, Call("Delete", "list", RgdResource, ScaleSetName, CallErr(t, fail)))
  /\ SetDisc(t, fail)
  /\ Goto(t, "del_secret")
  /\ UNCHANGED << setup, instances, appContext, ctxDone, sigAt, snap, submitted, ret, cleanupRet,
                  runErr, invoked, watchVars >>

\* kro_runner.go 376-381: best-effort template discovery.
DeleteDiscover(t, fail) ==
  /\ Alive(t)
  /\ pc[t] = "del_list"
  /\ Log(t, Call("Delete", "list", RgdResource, ScaleSetName, CallErr(t, fail)))
  /\ SetDisc(t, fail)
  /\ Goto(t, IF Discover(t, fail).info # NoInfo THEN "del_instance" ELSE "del_secret")
  /\ UNCHANGED << setup, instances, appContext, ctxDone, sigAt, snap, submitted, ret, cleanupRet,
                  runErr, invoked, watchVars >>

DeleteInstance_NotFoundFails(t, fail) ==
  /\ Alive(t)
  /\ pc[t] = "del_instance"
  /\ LET target == [resource |-> toResourceName(frame[t].info[1]),
                    name |-> frame[t].runnerName]
         e == IF CtxCancelled(t) THEN ContextCanceled
              ELSE IF fail THEN RemoteError
              ELSE IF target \notin instances THEN NotFound
              ELSE Nil
     IN
       /\ Log(t, Call("Delete", "delete", target.resource, target.name, e))
       /\ instances' = IF e = Nil THEN instances \ {target} ELSE instances
       /\ IF e = NotFound
          THEN IF t = "main"
               THEN /\ ret' = [ret EXCEPT !.delete = Wrap(e, "failed to delete ResourceGraph")]
                    /\ cleanupRet' = cleanupRet
                    /\ Goto(t, "run_after_delete")
               ELSE /\ cleanupRet' = Wrap(e, "failed to delete ResourceGraph")
                    /\ ret' = ret
                    /\ Goto(t, "cleanup_done")
          ELSE /\ ret' = ret
               /\ cleanupRet' = cleanupRet
               /\ Goto(t, "del_secret")
  /\ UNCHANGED << setup, appContext, ctxDone, sigAt, snap, submitted, frame,
                  runErr, invoked, watchVars >>

\* kro_runner.go 383-399: delete the instance named runnerName; errors are only logged.
DeleteInstance(t, fail) ==
  /\ Alive(t)
  /\ pc[t] = "del_instance"
  /\ LET target == [resource |-> toResourceName(frame[t].info[1]),
                    name |-> frame[t].runnerName]
         e == IF CtxCancelled(t) THEN ContextCanceled
              ELSE IF fail THEN RemoteError
              ELSE IF target \notin instances THEN NotFound
              ELSE Nil
     IN
       /\ Log(t, Call("Delete", "delete", target.resource, target.name, e))
       /\ instances' = IF e = Nil THEN instances \ {target} ELSE instances
  /\ Goto(t, "del_secret")
  /\ UNCHANGED << setup, appContext, ctxDone, sigAt, snap, submitted, frame, ret, cleanupRet,
                  runErr, invoked, watchVars >>

DeleteSecret_ReturnsLastError(t, fail) ==
  /\ Alive(t)
  /\ pc[t] = "del_secret"
  /\ IF frame[t].secretName # ""
     THEN Log(t, Call("Delete", "delete", SecretResource, frame[t].secretName,
                      CallErr(t, fail)))
     ELSE calls' = calls
  /\ LET last == calls[t][Len(calls[t])].err
         e == IF last \in {Nil, NotFound} THEN Nil ELSE last
     IN IF t = "main"
        THEN /\ ret' = [ret EXCEPT !.delete = e]
             /\ cleanupRet' = cleanupRet
             /\ Goto(t, "run_after_delete")
        ELSE /\ cleanupRet' = e
             /\ ret' = ret
             /\ Goto(t, "cleanup_done")
  /\ UNCHANGED << setup, instances, appContext, ctxDone, sigAt, snap, submitted, frame,
                  runErr, invoked, watchVars >>

DeleteSecret_OnlyAfterDiscovery(t, fail) ==
  /\ Alive(t)
  /\ pc[t] = "del_secret"
  /\ IF frame[t].secretName # "" /\ frame[t].discErr = Nil
     THEN Log(t, Call("Delete", "delete", SecretResource, frame[t].secretName,
                      CallErr(t, fail)))
     ELSE calls' = calls
  /\ IF t = "main"
     THEN /\ ret' = [ret EXCEPT !.delete = Nil]
          /\ cleanupRet' = cleanupRet
          /\ Goto(t, "run_after_delete")
     ELSE /\ cleanupRet' = Nil
          /\ ret' = ret
          /\ Goto(t, "cleanup_done")
  /\ UNCHANGED << setup, instances, appContext, ctxDone, sigAt, snap, submitted, frame,
                  runErr, invoked, watchVars >>

\* kro_runner.go 401-413: delete the recorded secret, if any, and return nil.
DeleteSecret(t, fail) ==
  /\ Alive(t)
  /\ pc[t] = "del_secret"
  /\ IF frame[t].secretName # ""
     THEN Log(t, Call("Delete", "delete", SecretResource, frame[t].secretName,
                      CallErr(t, fail)))
     ELSE calls' = calls
  /\ IF t = "main"
     THEN /\ ret' = [ret EXCEPT !.delete = Nil]
          /\ cleanupRet' = cleanupRet
          /\ Goto(t, "run_after_delete")
     ELSE /\ cleanupRet' = Nil
          /\ ret' = ret
          /\ Goto(t, "cleanup_done")
  /\ UNCHANGED << setup, instances, appContext, ctxDone, sigAt, snap, submitted, frame,
                  runErr, invoked, watchVars >>

\* ------------------------------------------------------------------ run
\* root.go 434-445: the interface assertion holds for KRORunner and for the
\* mockRunner; run calls CreateResources.
RunStart ==
  /\ pc["main"] = "run_start"
  /\ invoked' = Append(invoked, "Create")
  /\ Goto("main", "run_create")
  /\ UNCHANGED << setup, instances, appContext, ctxDone, sigAt, snap, submitted, frame, ret, cleanupRet,
                  runErr, calls, watchVars >>

\* root.go 445-451: CreateResources has returned.
RunAfterCreate ==
  /\ pc["main"] = "run_after_create"
  /\ IF ret.create # Nil
     THEN /\ runErr' = Wrap(ret.create, "fail to create resources")
          /\ invoked' = invoked
          /\ Goto("main", "done")
     ELSE /\ runErr' = runErr
          /\ invoked' = Append(invoked, "Wait")
          /\ Goto("main", "wait_getctx")
  /\ UNCHANGED << setup, instances, appContext, ctxDone, sigAt, snap, submitted, frame, ret, cleanupRet,
                  calls, watchVars >>

RunAfterWait_DeleteAnyway ==
  /\ harness \in {"main", "test"}
  /\ pc["main"] = "run_after_wait"
  /\ runErr' = runErr
  /\ invoked' = Append(invoked, "Delete")
  /\ Goto("main", "del_getctx")
  /\ lastEvent' = NoEvent
  /\ UNCHANGED << setup, instances, appContext, ctxDone, sigAt, snap, submitted, frame, ret, cleanupRet,
                  calls, nEvents, scen, watcher >>

\* root.go 451-457: WaitForResourceGraph has returned (its locals are gone).
RunAfterWait ==
  /\ harness \in {"main", "test"}
  /\ pc["main"] = "run_after_wait"
  /\ IF ret.wait # Nil
     THEN /\ runErr' = Wrap(ret.wait, "fail to wait for resources")
          /\ invoked' = invoked
          /\ Goto("main", "done")
     ELSE /\ runErr' = runErr
          /\ invoked' = Append(invoked, "Delete")
          /\ Goto("main", "del_getctx")
  /\ lastEvent' = NoEvent
  /\ UNCHANGED << setup, instances, appContext, ctxDone, sigAt, snap, submitted, frame, ret, cleanupRet,
                  calls, nEvents, scen, watcher >>

RunAfterDelete_Swallow ==
  /\ harness \in {"main", "test"}
  /\ pc["main"] = "run_after_delete"
  /\ runErr' = Nil
  /\ Goto("main", "done")
  /\ UNCHANGED << setup, instances, appContext, ctxDone, sigAt, snap, submitted, frame, ret, cleanupRet,
                  invoked, calls, watchVars >>

RunAfterDelete_AlwaysError ==
  /\ harness \in {"main", "test"}
  /\ pc["main"] = "run_after_delete"
  /\ runErr' = Wrap(ret.delete, "fail to delete resources")
  /\ Goto("main", "done")
  /\ UNCHANGED << setup, instances, appContext, ctxDone, sigAt, snap, submitted, frame, ret, cleanupRet,
                  invoked, calls, watchVars >>

\* root.go 457-463: DeleteResources has returned; run returns.
RunAfterDelete ==
  /\ harness \in {"main", "test"}
  /\ pc["main"] = "run_after_delete"
  /\ runErr' = IF ret.delete # Nil THEN Wrap(ret.delete, "fail to delete resources") ELSE Nil
  /\ Goto("main", "done")
  /\ UNCHANGED << setup, instances, appContext, ctxDone, sigAt, snap, submitted, frame, ret, cleanupRet,
                  invoked, calls, watchVars >>

\* ------------------------------------------------------------------ mockRunner
\* root_test.go 37-50: each operation returns its configured error.
MockCreateResources ==
  /\ harness = "test"
  /\ pc["main"] = "run_create"
  /\ ret' = [ret EXCEPT !.create = mock.createErr]
  /\ Goto("main", "run_after_create")
  /\ UNCHANGED << setup, instances, appContext, ctxDone, sigAt, snap, submitted, frame, cleanupRet,
                  runErr, invoked, calls, watchVars >>

MockWaitForResourceGraph ==
  /\ harness = "test"
  /\ pc["main"] = "wait_getctx"
  /\ ret' = [ret EXCEPT !.wait = mock.waitErr]
  /\ Goto("main", "run_after_wait")
  /\ UNCHANGED << setup, instances, appContext, ctxDone, sigAt, snap, submitted, frame, cleanupRet,
                  runErr, invoked, calls, watchVars >>

MockDeleteResources ==
  /\ harness = "test"
  /\ pc["main"] = "del_getctx"
  /\ ret' = [ret EXCEPT !.delete = mock.deleteErr]
  /\ Goto("main", "run_after_delete")
  /\ UNCHANGED << setup, instances, appContext, ctxDone, sigAt, snap, submitted, frame, cleanupRet,
                  runErr, invoked, calls, watchVars >>

\* ------------------------------------------------------------------ main
\* main.go 317: a SIGINT/SIGTERM cancels the NotifyContext.
Signal ==
  /\ harness = "main"
  /\ ~Exited
  /\ ~ctxDone
  /\ \A i \in DOMAIN rgds : rgds[i].kind # KindVM
  /\ ctxDone' = TRUE
  /\ sigAt' = pc["main"]
  /\ snap' = instances
  /\ UNCHANGED << setup, instances, appContext, submitted, pc, frame, ret, cleanupRet,
                  runErr, invoked, calls, watchVars >>

\* main.go 320-327: the goroutine wakes on ctx.Done(), takes a fresh context from
\* ensureValidCleanupContext (the parent is cancelled) and calls DeleteResources.
CleanupWake ==
  /\ Alive("cleanup")
  /\ pc["cleanup"] = "blocked"
  /\ ctxDone
  /\ Goto("cleanup", "del_getctx")
  /\ UNCHANGED << setup, instances, appContext, ctxDone, sigAt, snap, submitted, frame, ret, cleanupRet,
                  runErr, invoked, calls, watchVars >>

\* ------------------------------------------------------------------ environment
\* Another actor removes an instance from the backend.
ExternalDelete ==
  /\ harness = "main"
  /\ ~Exited
  /\ \E i \in instances : instances' = instances \ {i}
  /\ UNCHANGED << setup, appContext, ctxDone, sigAt, snap, submitted, pc, frame, ret, cleanupRet,
                  runErr, invoked, calls, watchVars >>

\* Another actor replaces the scale set's template by one declaring another kind.
\* (The model explores a template replacement and a signal in separate runs.)
ExternalTemplateChange ==
  /\ KroHarness
  /\ ~Exited
  /\ ~ctxDone
  /\ \E i \in DOMAIN rgds :
       /\ rgds[i].label = ScaleSetName
       /\ rgds[i].hasKind
       /\ rgds[i].kind = KindPod
       /\ rgds' = [rgds EXCEPT ![i].kind = KindVM]
  /\ UNCHANGED << harness, opts, mock, helperVars, instances, appContext, ctxDone, sigAt,
                  snap, submitted, pc, frame, ret, cleanupRet, runErr, invoked, calls,
                  watchVars >>

Next ==
  \/ RunStart
  \/ RunAfterCreate
  \/ RunAfterWait
  \/ RunAfterDelete
  \/ CreateValidate
  \/ \E fail \in BOOLEAN : CreateGetPod(fail)
  \/ \E fail \in BOOLEAN : CreateDiscover(fail)
  \/ \E fail \in BOOLEAN : CreateSubmit(fail)
  \/ CreateRecord
  \/ \E t \in Threads : GetAppContextRead(t)
  \/ \E t \in Threads : GetAppContextInit(t)
  \/ \E fail \in BOOLEAN : WaitDiscover(fail)
  \/ \E fail \in BOOLEAN : WaitOpen(fail)
  \/ \E ev \in Events : WaitEvent(ev)
  \/ WaitCancel
  \/ \E t \in Threads, fail \in BOOLEAN : DeleteDiscover(t, fail)
  \/ \E t \in Threads, fail \in BOOLEAN : DeleteInstance(t, fail)
  \/ \E t \in Threads, fail \in BOOLEAN : DeleteSecret(t, fail)
  \/ MockCreateResources
  \/ MockWaitForResourceGraph
  \/ MockDeleteResources
  \/ Signal
  \/ CleanupWake
  \/ ExternalDelete
  \/ ExternalTemplateChange

Spec == Init /\ [][Next]_vars

\* ------------------------------------------------------------------ the cleanup helpers alone
\* getCleanupTimeout and ensureValidCleanupContext called as main calls them
\* (main.go 315, 323), for every value of KAR_CLEANUP_TIMEOUT and every parent.
HelpersInit ==
  /\ harness = "helpers"
  /\ opts = [RunnerName |-> "", JitConfig |-> ""]
  /\ mock = [createErr |-> Nil, waitErr |-> Nil, deleteErr |-> Nil]
  /\ rgds = <<>>
  /\ pc = [t \in Threads |-> "blocked"]
  /\ appContext = <<>>
  /\ instances = {}
  /\ RunnerIdle
  /\ env \in EnvValues
  /\ parent \in ParentContexts
  /\ kinds = << <<>>, <<>> >>
  /\ HelpersIdle

runnerVars ==
  << harness, opts, mock, rgds, instances, appContext, ctxDone, sigAt, snap, submitted, pc,
     frame, ret, cleanupRet, runErr, invoked, calls, watchVars >>

CallGetCleanupTimeout ==
  /\ harness = "helpers"
  /\ hpc = "start"
  /\ tmo' = getCleanupTimeout(env)
  /\ hpc' = "timeout"
  /\ UNCHANGED << runnerVars, env, parent, cctx, kinds, names >>

CallEnsureValidCleanupContext ==
  /\ harness = "helpers"
  /\ hpc = "timeout"
  /\ cctx' = ensureValidCleanupContext(parent, env)
  /\ hpc' = "context"
  /\ UNCHANGED << runnerVars, env, parent, tmo, kinds, names >>

HelpersNext == CallGetCleanupTimeout \/ CallEnsureValidCleanupContext

HelpersSpec == HelpersInit /\ [][HelpersNext]_vars

\* ------------------------------------------------------------------ toResourceName alone
\* toResourceName called on two kinds, as TestToResourceName calls it on one
\* kind after the other.
NamingInit ==
  /\ harness = "naming"
  /\ opts = [RunnerName |-> "", JitConfig |-> ""]
  /\ mock = [createErr |-> Nil, waitErr |-> Nil, deleteErr |-> Nil]
  /\ rgds = <<>>
  /\ pc = [t \in Threads |-> "blocked"]
  /\ appContext = <<>>
  /\ instances = {}
  /\ RunnerIdle
  /\ env = [set |-> FALSE, val |-> <<>>]
  /\ parent = Ctx("background", Nil, FALSE, 0)
  /\ kinds \in Kinds \X Kinds
  /\ HelpersIdle

CallToResourceName ==
  /\ harness = "naming"
  /\ hpc = "start"
  /\ names' = << toResourceName(kinds[1]), toResourceName(kinds[2]) >>
  /\ hpc' = "named"
  /\ UNCHANGED << runnerVars, env, parent, tmo, cctx, kinds >>

NamingNext == CallToResourceName

NamingSpec == NamingInit /\ [][NamingNext]_vars

\* ------------------------------------------------------------------ vocabulary of the claims
Range(q) == { q[i] : i \in DOMAIN q }

CreatePcs == {"run_create", "create_getpod", "create_list", "create_submit", "create_record"}
WaitPcs == {"wait_getctx", "wait_getctx_init", "wait_list", "wait_open", "wait_loop"}
DeletePcs == {"del_getctx", "del_getctx_init", "del_list", "del_instance", "del_secret"}

\* No template has been replaced since the process started.
TemplatesUnchanged == \A i \in DOMAIN rgds : rgds[i].kind # KindVM

\* The instances this process has created: its successful create calls.
CreatedTargets ==
  { [resource |-> c.resource, name |-> c.name] :
      c \in { d \in Range(calls["main"]) : d.verb = "create" /\ d.err = Nil } }

\* Goroutine t has issued a delete call naming the instance.
DeleteIssuedBy(t, target) ==
  \E c \in Range(calls[t]) :
    c.verb = "delete" /\ c.resource = target.resource /\ c.name = target.name

DeleteIssued(target) == \E t \in Threads : DeleteIssuedBy(t, target)

\* No remote call of goroutine t has failed (not-found on delete is not a failure).
NoRemoteFailure(t) == \A c \in Range(calls[t]) : c.err \in {Nil, NotFound}

\* The names the runner context records (a nil context records none).
RecordedNames ==
  IF appContext = <<>> THEN << "", "" >>
  ELSE << GetVMIName(appContext), GetDataVolumeName(appContext) >>

\* Both goroutines are about to access appContext without synchronisation, and
\* one of the accesses is the write of NewAppContext.
AppContextRace ==
  /\ harness = "main"
  /\ pc["main"] = "create_record"
  /\ pc["cleanup"] \in {"del_getctx", "del_getctx_init"}

ResourcesReady(ev) ==
  \E i \in DOMAIN ev.conds :
    ev.conds[i].type = "ResourcesReady" /\ ev.conds[i].status = "True"

\* An object event on which the instance is in none of the states that end the
\* wait: no status.state, a state other than ACTIVE, FAILED, DELETED, or ACTIVE
\* without the condition ResourcesReady=True.
NonTerminal(ev) ==
  /\ ev.isObj
  /\ \/ ev.state = Absent
     \/ ev.state \notin {"ACTIVE", "FAILED", "DELETED"}
     \/ ev.state = "ACTIVE" /\ ~ResourcesReady(ev)

\* errors.Cause: the innermost error of a chain of Wraps.
Cause(err) == IF err = Nil THEN Nil ELSE << err[Len(err)] >>

\* The remote calls goroutine t has issued inside DeleteResources.
DeleteCalls(t) == SelectSeq(calls[t], LAMBDA c : c.op = "Delete")

\* DeleteResources of goroutine t has returned.
DeleteReturned(t) ==
  /\ harness = "main"
  /\ IF t = "main" THEN ret.delete # Unset ELSE cleanupRet # Unset

DeleteResult(t) == IF t = "main" THEN ret.delete ELSE cleanupRet

\* ------------------------------------------------------------------ claims
\* C1 (as claimed): when the signal arrives while run is blocked in
\* WaitForResourceGraph after a successful CreateResources and Wait returns the
\* cancellation, and no remote call of the cleanup goroutine fails, the cleanup
\* goroutine has issued the delete of the created instance by the time the
\* process exits.
C1_SignalDuringWaitDeletesBeforeExit ==
  (/\ Exited
   /\ sigAt = "wait_loop"
   /\ ret.create = Nil
   /\ ret.wait = ContextCanceled
   /\ NoRemoteFailure("cleanup"))
  => \A target \in CreatedTargets : DeleteIssuedBy("cleanup", target)

\* C2 (as claimed): no DeleteResources of the cleanup goroutine is in progress
\* while run is inside CreateResources, WaitForResourceGraph or DeleteResources.
C2_OneOperationAtATime ==
  ~(/\ harness = "main"
    /\ pc["cleanup"] \in DeletePcs
    /\ pc["main"] \in CreatePcs \cup WaitPcs \cup DeletePcs)

\* C3 (as claimed, read charitably: no signal, no failed remote call): once
\* WaitForResourceGraph has returned, whatever it returned, the process has issued
\* a delete for every instance it created by the time it exits.
C3_DeleteAfterAnyWait ==
  (Exited /\ ret.create = Nil /\ ret.wait # Unset /\ ~ctxDone /\ NoRemoteFailure("main"))
    => \A target \in CreatedTargets : DeleteIssued(target)

\* C3 (amended): once WaitForResourceGraph has returned nil, run invokes
\* DeleteResources, which issues a delete for the recorded runner name in the
\* collection of the kind its own discovery resolved, when that discovery
\* succeeds; when Wait returned an error, run returns without invoking
\* DeleteResources and has issued no delete.
C3_DeleteOnlyAfterWaitNil ==
  (harness = "main" /\ pc["main"] = "done" /\ ret.create = Nil) =>
    /\ (ret.wait = Nil /\ frame["main"].discErr = Nil) =>
         /\ DeleteIssuedBy("main", [resource |-> toResourceName(frame["main"].info[1]),
                                    name |-> opts.RunnerName])
         /\ \A target \in CreatedTargets :
              target.resource = toResourceName(frame["main"].info[1])
                => DeleteIssuedBy("main", target)
    /\ ret.wait # Nil =>
         /\ "Delete" \notin Range(invoked)
         /\ \A c \in Range(calls["main"]) : c.verb # "delete"

C3_Witness ==
  /\ Exited
  /\ ret.create = Nil
  /\ ret.wait = Nil
  /\ \E c \in Range(calls["main"]) :
       c.verb = "delete" /\ c.name = opts.RunnerName /\ c.err = Nil

\* C4: run stops at the first operation that returns an error, and returns a
\* non-nil error then and when DeleteResources fails.
C4_RunStopsAtFirstError ==
  pc["main"] = "done" =>
    /\ ret.create # Nil => (invoked = <<"Create">> /\ runErr \notin {Nil, Unset})
    /\ (ret.create = Nil /\ ret.wait # Nil) =>
         (invoked = <<"Create", "Wait">> /\ runErr \notin {Nil, Unset})
    /\ ret.delete \notin {Nil, Unset} => runErr \notin {Nil, Unset}

C4_Witness ==
  /\ pc["main"] = "done"
  /\ ret.create = Nil
  /\ ret.wait = Nil
  /\ ret.delete \notin {Nil, Unset}
  /\ invoked = <<"Create", "Wait", "Delete">>

\* C5: Wait is invoked only after Create returned nil, Delete only after Wait
\* returned nil, and when all three returned nil run has invoked each exactly
\* once, in that order, and returns nil.
C5_HappyPathOrder ==
  /\ "Wait" \in Range(invoked) => ret.create = Nil
  /\ "Delete" \in Range(invoked) => (ret.create = Nil /\ ret.wait = Nil)
  /\ (pc["main"] = "done" /\ ret.create = Nil /\ ret.wait = Nil /\ ret.delete = Nil)
       => (invoked = <<"Create", "Wait", "Delete">> /\ runErr = Nil)

C5_Witness ==
  /\ pc["main"] = "done"
  /\ ret = [create |-> Nil, wait |-> Nil, delete |-> Nil]
  /\ runErr = Nil

\* C6: with Create succeeding, no failed remote call, the template staying as it
\* is, and the watch delivering
\* pending, ACTIVE, ACTIVE + ResourcesReady=True + Succeeded, every operation and
\* run return nil and no instance named runnerName is left, also when another
\* actor removed the instance before DeleteResources did.
C6_EndToEnd ==
  (/\ harness = "main"
   /\ pc["main"] = "done"
   /\ ret.create = Nil
   /\ scen = "succeeded"
   /\ NoRemoteFailure("main")
   /\ TemplatesUnchanged)
  => /\ ret.wait = Nil
     /\ ret.delete = Nil
     /\ runErr = Nil
     /\ \A i \in instances : i.name # opts.RunnerName

C6_Witness ==
  /\ Exited
  /\ scen = "succeeded"
  /\ ret = [create |-> Nil, wait |-> Nil, delete |-> Nil]
  /\ NoRemoteFailure("main")
  /\ \E c \in Range(calls["main"]) : c.verb = "delete" /\ c.err = NotFound

\* C7 (as claimed): when the signal arrives during CreateResources, then once run
\* and the signal-triggered DeleteResources have both finished (no remote call of
\* the cleanup goroutine having failed) a delete has been issued for every
\* instance created, and the cleanup goroutine did not read the runner context
\* around Create's write of it: what it read is what a successful Create recorded.
\* (The unsynchronised accesses themselves are the states AppContextRace.)
C7_SignalDuringCreateLeavesNothing ==
  (/\ harness = "main"
   /\ pc["main"] = "done"
   /\ pc["cleanup"] = "cleanup_done"
   /\ sigAt \in CreatePcs
   /\ NoRemoteFailure("cleanup"))
  => /\ \A target \in CreatedTargets : DeleteIssued(target)
     /\ ret.create = Nil => frame["cleanup"].runnerName = opts.RunnerName

\* C8: an empty runner name gives ErrEmptyRunnerName (also with an empty JIT
\* config), a non-empty name with an empty JIT config gives ErrEmptyJitConfig;
\* no remote call is made and the recorded names stay as they were.
C8_CreateValidation ==
  (harness = "main" /\ ret.create # Unset) =>
    /\ opts.RunnerName = "" =>
         /\ ret.create = ErrEmptyRunnerName
         /\ calls["main"] = <<>>
         /\ RecordedNames = << "", "" >>
    /\ (opts.RunnerName # "" /\ opts.JitConfig = "") =>
         /\ ret.create = ErrEmptyJitConfig
         /\ calls["main"] = <<>>
         /\ RecordedNames = << "", "" >>

C8_Witness ==
  /\ harness = "main"
  /\ opts = [RunnerName |-> "", JitConfig |-> ""]
  /\ ret.create = ErrEmptyRunnerName
  /\ pc["main"] = "done"

\* C9: after a List call that returned, discovery fails with the no-template
\* error for zero matching templates, with the ambiguous error for two or more,
\* with a third error for one match lacking spec.schema.kind, and otherwise
\* returns that template's kind.
C9_Discovery ==
  \A t \in Threads :
    frame[t].listErr = Nil =>
      LET matching == frame[t].items IN
        /\ \A i \in DOMAIN matching : matching[i].label = ScaleSetName
        /\ Len(matching) = 0 => (frame[t].discErr = ErrNoRGD /\ frame[t].info = NoInfo)
        /\ Len(matching) >= 2 =>
             (frame[t].discErr = ErrMultipleRGDs /\ frame[t].info = NoInfo)
        /\ Len(matching) = 1 =>
             IF matching[1].hasKind
             THEN frame[t].discErr = Nil /\ frame[t].info = << matching[1].kind >>
             ELSE /\ frame[t].discErr \notin {Nil, ErrNoRGD, ErrMultipleRGDs}
                  /\ frame[t].info = NoInfo

C9_Witness ==
  /\ frame["main"].listErr = Nil
  /\ frame["main"].discErr = ErrMultipleRGDs
  /\ Len(rgds) = 2

\* C10: when Wait returns on an ACTIVE event with ResourcesReady=True, it returns
\* nil if the runnerPod phase is Succeeded and ErrRunnerFailed if it is Failed.
C10_ActiveReadyPhase ==
  (/\ pc["main"] = "run_after_wait"
   /\ lastEvent.isObj
   /\ lastEvent.state = "ACTIVE"
   /\ ResourcesReady(lastEvent)
   /\ lastEvent.podFound)
  => /\ lastEvent.phase = "Succeeded" => ret.wait = Nil
     /\ lastEvent.phase = "Failed" => ret.wait = ErrRunnerFailed

C10_Witness ==
  /\ pc["main"] = "run_after_wait"
  /\ lastEvent.state = "ACTIVE"
  /\ ResourcesReady(lastEvent)
  /\ lastEvent.podFound
  /\ lastEvent.phase = "Failed"
  /\ ret.wait = ErrRunnerFailed

\* C11: an event whose status.state is FAILED makes Wait return ErrRunnerFailed
\* on that very event (no further event is taken, the watch is stopped),
\* whatever its conditions and nested pod status are.
C11_FailedReturnsRunnerFailed ==
  (lastEvent.isObj /\ lastEvent.state = "FAILED")
    => /\ pc["main"] = "run_after_wait"
       /\ ret.wait = ErrRunnerFailed
       /\ watcher = "stopped"

C11_Witness ==
  /\ pc["main"] = "run_after_wait"
  /\ nEvents >= 1
  /\ lastEvent.isObj
  /\ lastEvent.state = "FAILED"
  /\ ResourcesReady(lastEvent)
  /\ lastEvent.podFound
  /\ lastEvent.phase = "Succeeded"
  /\ ret.wait = ErrRunnerFailed

\* C12: an event whose status.state is DELETED makes Wait return nil.
C12_DeletedReturnsNil ==
  (lastEvent.isObj /\ lastEvent.state = "DELETED")
    => (pc["main"] = "run_after_wait" /\ ret.wait = Nil)

C12_Witness ==
  /\ pc["main"] = "run_after_wait"
  /\ lastEvent.isObj
  /\ lastEvent.type = "Modified"
  /\ lastEvent.state = "DELETED"
  /\ ret.wait = Nil

\* C13 (as claimed): when the instance has been removed by another actor and the
\* watch delivers the Deleted event for it, carrying its last, non-terminal
\* status, Wait returns nil on that event instead of continuing to wait.
C13_OutOfBandDeleteReturnsNil ==
  (/\ lastEvent.type = "Deleted"
   /\ NonTerminal(lastEvent)
   /\ CreatedTargets # {}
   /\ CreatedTargets \cap instances = {})
  => (pc["main"] = "run_after_wait" /\ ret.wait = Nil)

\* C14 (as claimed): when Wait returns nil on an ACTIVE event with
\* ResourcesReady=True, the nested pod phase is Succeeded, or the nested status
\* or its phase field is absent.
C14_SuccessOnlyIfSucceededOrUnknown ==
  (/\ pc["main"] = "run_after_wait"
   /\ lastEvent.isObj
   /\ lastEvent.state = "ACTIVE"
   /\ ResourcesReady(lastEvent)
   /\ ret.wait = Nil)
  => \/ ~lastEvent.podFound
     \/ lastEvent.phase = ""
     \/ lastEvent.phase = "Succeeded"

\* C15: an event without status.state, with a state other than ACTIVE, FAILED,
\* DELETED, or with ACTIVE but no ResourcesReady=True does not make Wait return:
\* no result is set, the watch stays open and the loop is back at its select.
C15_NonTerminalKeepsWaiting ==
  NonTerminal(lastEvent)
    => (pc["main"] = "wait_loop" /\ ret.wait = Unset /\ watcher = "open")

C15_Witness ==
  /\ pc["main"] = "wait_loop"
  /\ nEvents = MaxEvents
  /\ lastEvent.type = "Modified"
  /\ lastEvent.state = "ACTIVE"
  /\ lastEvent.conds = << [type |-> "ResourcesReady", status |-> "False"] >>
  /\ lastEvent.podFound
  /\ lastEvent.phase = "Failed"
  /\ ret.wait = Unset

\* C16: when the watch loop ends through ctx.Done(), no event having ended it,
\* Wait returns the context's own error, unwrapped, and the watch is stopped.
C16_CancelReturnsContextError ==
  (/\ harness = "main"
   /\ pc["main"] = "run_after_wait"
   /\ watcher # "none"
   /\ lastEvent = NoEvent)
  => (ctxDone /\ ret.wait = ContextCanceled /\ watcher = "stopped")

C16_Witness ==
  /\ pc["main"] = "run_after_wait"
  /\ sigAt = "wait_loop"
  /\ nEvents >= 1
  /\ lastEvent = NoEvent
  /\ ret.wait = ContextCanceled
  /\ watcher = "stopped"

\* C17 (as claimed): when the context is cancelled while Wait is in its loop,
\* no event taken afterwards determines the result: Wait returns the
\* cancellation error.
C17_NoEventAfterCancel ==
  (harness = "main" /\ pc["main"] = "run_after_wait" /\ sigAt = "wait_loop")
    => (lastEvent = NoEvent /\ ret.wait = ContextCanceled)

\* C18 (as claimed): when the context is already cancelled as Wait is called, so
\* that its discovery (or watch-open) call fails with the cancellation, Wait
\* returns the context's own error verbatim.
C18_CancelledCallReturnsContextErrorVerbatim ==
  (/\ harness = "main"
   /\ ret.wait # Unset
   /\ sigAt \in CreatePcs \cup {"run_after_create", "wait_getctx", "wait_getctx_init"}
   /\ \E c \in Range(calls["main"]) : c.op = "Wait" /\ c.err = ContextCanceled)
  => ret.wait = ContextCanceled

\* C18 (amended): when the discovery call or the watch-open call of Wait fails
\* with the cancellation of the context, Wait returns that error wrapped in the
\* messages of the failed step; the cancellation is the cause of the returned
\* error, not the returned error.
C18_CancelledCallErrorIsWrapped ==
  (harness = "main" /\ ret.wait # Unset) =>
    \A c \in Range(calls["main"]) :
      (c.op = "Wait" /\ c.err = ContextCanceled) =>
        /\ c.verb = "list" =>
             ret.wait = Wrap(Wrap(ContextCanceled, "failed to list RGDs"),
                             "failed to discover RGD for watching")
        /\ c.verb = "watch" =>
             ret.wait = Wrap(ContextCanceled, "failed to watch ResourceGraph instance")
        /\ ret.wait # ContextCanceled
        /\ Cause(ret.wait) = ContextCanceled

C18_Witness ==
  /\ pc["main"] = "run_after_wait"
  /\ sigAt = "run_after_create"
  /\ \E c \in Range(calls["main"]) :
       c.op = "Wait" /\ c.verb = "list" /\ c.err = ContextCanceled
  /\ Len(ret.wait) = 3
  /\ Cause(ret.wait) = ContextCanceled

\* C19: Wait returns ErrRunnerFailed only on an event with state FAILED or with
\* ACTIVE, ResourcesReady=True and nested phase Failed; when it returns because
\* discovery or watch-open failed, on a watch Error event, or on cancellation,
\* it returns an error that is not ErrRunnerFailed and does not wrap it.
C19_RunnerFailedOnlyOnFailure ==
  (harness = "main" /\ pc["main"] = "run_after_wait") =>
    /\ ret.wait = ErrRunnerFailed =>
         /\ lastEvent.isObj
         /\ \/ lastEvent.state = "FAILED"
            \/ /\ lastEvent.state = "ACTIVE"
               /\ ResourcesReady(lastEvent)
               /\ lastEvent.podFound
               /\ lastEvent.phase = "Failed"
    /\ (lastEvent = NoEvent \/ lastEvent.type = "Error") =>
         /\ ret.wait \notin {Nil, Unset, ErrRunnerFailed}
         /\ Cause(ret.wait) # ErrRunnerFailed

C19_Witness ==
  /\ pc["main"] = "run_after_wait"
  /\ nEvents >= 1
  /\ lastEvent = ErrorEvent
  /\ ret.wait = ErrWatch

\* C20: DeleteResources invoked twice in a row (by run, then, run's invocation
\* having returned, by the signal-triggered cleanup), where the first left the
\* instance absent and the second finds it absent: both return nil, and the
\* backend is as the first invocation left it.
C20_DeleteTwice ==
  (/\ harness = "main"
   /\ sigAt = "run_after_delete"
   /\ pc["cleanup"] = "cleanup_done"
   /\ \E c \in Range(calls["main"]) :
        c.op = "Delete" /\ c.verb = "delete" /\ c.err \in {Nil, NotFound}
   /\ \E c \in Range(calls["cleanup"]) :
        c.op = "Delete" /\ c.verb = "delete" /\ c.err = NotFound)
  => /\ ret.delete = Nil
     /\ cleanupRet = Nil
     /\ instances = snap

C20_Witness ==
  /\ harness = "main"
  /\ sigAt = "run_after_delete"
  /\ pc["cleanup"] = "cleanup_done"
  /\ \E c \in Range(calls["main"]) :
       c.op = "Delete" /\ c.verb = "delete" /\ c.name = opts.RunnerName /\ c.err = Nil
  /\ \E c \in Range(calls["cleanup"]) :
       c.op = "Delete" /\ c.verb = "delete" /\ c.name = opts.RunnerName /\ c.err = NotFound
  /\ ret.delete = Nil
  /\ cleanupRet = Nil
  /\ CreatedTargets # {}
  /\ CreatedTargets \cap instances = {}

C22_InstanceDeleteIffKindResolved ==
  \A t \in Threads :
    DeleteReturned(t) =>
      LET dels == SelectSeq(DeleteCalls(t), LAMBDA c : c.verb = "delete") IN
        /\ DeleteResult(t) = Nil
        /\ Len(SelectSeq(DeleteCalls(t), LAMBDA c : c.verb = "list")) = 1
        /\ frame[t].discErr # Nil => dels = <<>>
        /\ frame[t].discErr = Nil =>
             /\ Len(dels) = 1
             /\ dels[1].resource = toResourceName(frame[t].info[1])
             /\ dels[1].name = frame[t].runnerName

C22_Witness ==
  /\ DeleteReturned("main")
  /\ ~ctxDone
  /\ frame["main"].discErr \notin {Nil, Unset}
  /\ \A i \in DOMAIN DeleteCalls("main") : DeleteCalls("main")[i].verb # "delete"
  /\ CreatedTargets # {}
  /\ CreatedTargets \subseteq instances
  /\ ret.delete = Nil

\* Non-empty JIT config values a caller may pass.
JitPayloads == {"cfg", "cfg-2"}

\* The strings an instance object carries besides its kind.
InstanceStrings(o) ==
  { o.name, o.namespace, o.annotations.key, o.annotations.value.runnerName,
    o.annotations.value.scaleSetName, o.annotations.value.jitConfigSecret,
    o.spec.runnerName }
  \cup { o.labels[k] : k \in DOMAIN o.labels }
  \cup DOMAIN o.labels
  \cup { o.ownerReferences[i].name : i \in DOMAIN o.ownerReferences }

\* C23: the instance object CreateResources submits is the one it would submit
\* for any other non-empty JIT config, given the same runner name, scale-set
\* name, namespace, discovered kind, orchestrator pod and clock reading; and the
\* JIT config is none of the strings in it.
C23_InstanceIndependentOfJitConfig ==
  (harness = "main" /\ submitted # <<>>) =>
    LET o == submitted[1] IN
      /\ \A j \in JitPayloads :
           o = BuildInstance(opts.RunnerName, j, ScaleSetName, Namespace, o.kind,
                             GetPod(opts.RunnerName),
                             o.annotations.value.createdTimestamp)
      /\ opts.JitConfig \notin InstanceStrings(o)

C23_Witness ==
  /\ harness = "main"
  /\ submitted # <<>>
  /\ ret.create = Nil
  /\ opts.JitConfig = "cfg"
  /\ submitted[1].spec = [runnerName |-> "r1"]

\* C24: the instance CreateResources submits has the kind its discovery
\* resolved, the name runnerName, the runner's namespace, the scale-set and
\* runner-name labels, one owner reference naming the pod runnerName with its
\* UID and controller=false, and the spec {runnerName}; the create call goes to
\* the collection toResourceName(kind).
C24_InstanceShape ==
  (harness = "main" /\ submitted # <<>>) =>
    LET o == submitted[1] IN
      /\ pc["main"] \in {"create_record", "run_after_create"} => o.kind = frame["main"].info[1]
      /\ o.name = opts.RunnerName
      /\ o.namespace = Namespace
      /\ DOMAIN o.labels = {"actions.github.com/scale-set-name", "kro.run/runner-name"}
      /\ o.labels["actions.github.com/scale-set-name"] = ScaleSetName
      /\ o.labels["kro.run/runner-name"] = opts.RunnerName
      /\ Len(o.ownerReferences) = 1
      /\ o.ownerReferences[1].kind = "Pod"
      /\ o.ownerReferences[1].name = opts.RunnerName
      /\ o.ownerReferences[1].uid = GetPod(opts.RunnerName).uid
      /\ o.ownerReferences[1].controller = FALSE
      /\ DOMAIN o.spec = {"runnerName"}
      /\ o.spec.runnerName = opts.RunnerName
      /\ \E c \in Range(calls["main"]) :
           c.verb = "create" /\ c.resource = toResourceName(o.kind) /\ c.name = o.name

C24_Witness ==
  /\ harness = "main"
  /\ pc["main"] = "run_after_create"
  /\ ret.create = Nil
  /\ submitted # <<>>
  /\ submitted[1].kind = KindPod
  /\ \E c \in Range(calls["main"]) :
       c.verb = "create" /\ c.resource = <<"p", "o", "d", "s">> /\ c.err = Nil

\* C25 (as claimed): the recorded names are the initial, empty ones until a
\* CreateResources call succeeds, and (runnerName, "") from then on: failed
\* Create calls, WaitForResourceGraph and DeleteResources do not change them.
C25_RecordChangesOnlyOnCreateSuccess ==
  harness = "main" =>
    RecordedNames = IF ret.create = Nil THEN << opts.RunnerName, "" >> ELSE << "", "" >>

\* C26: DeleteResources invoked while no CreateResources has succeeded (the
\* signal-triggered cleanup) works on the empty runner name and returns nil;
\* WaitForResourceGraph invoked on a fresh process reads the empty runner name,
\* goes on to discovery and, when that succeeds, opens its watch with the empty
\* name: the only errors it returns are those of its remote calls and events.
C26_EmptyContextIsNotAnError ==
  /\ (harness = "main" /\ pc["cleanup"] = "cleanup_done" /\ ret.create # Nil) =>
       /\ cleanupRet = Nil
       /\ frame["cleanup"].runnerName = ""
       /\ Len(DeleteCalls("cleanup")) >= 1
       /\ \A i \in DOMAIN DeleteCalls("cleanup") :
            DeleteCalls("cleanup")[i].verb = "delete" => DeleteCalls("cleanup")[i].name = ""
  /\ (harness = "direct" /\ pc["main"] \notin {"wait_getctx", "wait_getctx_init"}) =>
       /\ frame["main"].runnerName = ""
       /\ pc["main"] # "wait_list" =>
            /\ Len(calls["main"]) >= 1
            /\ calls["main"][1].verb = "list"
       /\ (pc["main"] \in {"wait_loop", "run_after_wait"} /\ frame["main"].discErr = Nil) =>
            /\ Len(calls["main"]) = 2
            /\ calls["main"][2].verb = "watch"
            /\ calls["main"][2].name = ""
       /\ (pc["main"] = "run_after_wait" /\ NoRemoteFailure("main")
           /\ frame["main"].discErr = Nil /\ lastEvent.type # "Error") =>
            ret.wait \in {Nil, ErrRunnerFailed}

C26_Witness ==
  /\ harness = "direct"
  /\ pc["main"] = "wait_loop"
  /\ appContext = NewAppContext("", "")
  /\ \E c \in Range(calls["main"]) : c.verb = "watch" /\ c.name = "" /\ c.err = Nil

\* A call against the collection of instances (not a template list, a pod get
\* or a secret delete).
IsInstanceCall(c) == c.verb \in {"create", "watch"} \/ (c.verb = "delete" /\ c.resource # SecretResource)

\* C27: every create, watch and instance delete call is immediately preceded, in
\* its goroutine, by a successful template list call of the same operation; and
\* the collection it targets is the one of the kind that list call answered,
\* whatever an earlier operation had discovered.
C27_OwnDiscoveryPerOperation ==
  \A t \in Threads :
    /\ \A i \in DOMAIN calls[t] :
         IsInstanceCall(calls[t][i]) =>
           /\ i > 1
           /\ calls[t][i - 1].verb = "list"
           /\ calls[t][i - 1].op = calls[t][i].op
           /\ calls[t][i - 1].err = Nil
    /\ (/\ calls[t] # <<>>
        /\ IsInstanceCall(calls[t][Len(calls[t])])
        /\ pc[t] \notin {"wait_getctx_init", "del_getctx_init", "wait_list", "del_list"})
       => /\ Len(frame[t].items) = 1
          /\ calls[t][Len(calls[t])].resource = toResourceName(frame[t].items[1].kind)

C27_Witness ==
  /\ harness = "main"
  /\ pc["main"] = "wait_loop"
  /\ \E c \in Range(calls["main"]) :
       c.verb = "create" /\ c.resource = toResourceName(KindPod) /\ c.err = Nil
  /\ \E c \in Range(calls["main"]) :
       c.verb = "watch" /\ c.resource = toResourceName(KindVM) /\ c.err = Nil

\* The verbs that change a remote object.
WriteVerbs == {"create", "update", "patch", "delete"}

\* C28: the calls of WaitForResourceGraph are a template list and a watch; the
\* only write calls the component makes are the create of CreateResources and
\* the deletes of DeleteResources, so that after the create every write against
\* the instance is a delete issued by DeleteResources.
C28_NoUpdateAfterCreate ==
  \A t \in Threads :
    \A i \in DOMAIN calls[t] :
      LET c == calls[t][i] IN
        /\ c.op = "Wait" =>
             \/ c.verb = "list" /\ c.resource = RgdResource
             \/ c.verb = "watch"
        /\ c.verb \in WriteVerbs =>
             \/ c.verb = "create" /\ c.op = "Create"
             \/ c.verb = "delete" /\ c.op = "Delete"
        /\ c.verb = "create" =>
             \A j \in DOMAIN calls[t] :
               (j > i /\ calls[t][j].verb \in WriteVerbs) =>
                 (calls[t][j].verb = "delete" /\ calls[t][j].op = "Delete")

C28_Witness ==
  /\ Exited
  /\ Len(calls["main"]) = 7
  /\ calls["main"][3].verb = "create" /\ calls["main"][3].err = Nil
  /\ calls["main"][4].verb = "list" /\ calls["main"][4].op = "Wait"
  /\ calls["main"][5].verb = "watch"
  /\ calls["main"][7].verb = "delete" /\ calls["main"][7].err = Nil

\* C30: getCleanupTimeout returns the parsed value of KAR_CLEANUP_TIMEOUT whenever
\* the value is a valid duration, a zero duration included, and the default of
\* five minutes when the variable is unset, empty or not a duration.
C30_CleanupTimeout ==
  hpc # "start" =>
    LET r == ParseDuration(env.val) IN
      /\ (env.set /\ r.ok => tmo = r.val)
      /\ (~env.set \/ env.val = <<>> \/ ~r.ok => tmo = 5 * 60 * 1000)
      /\ (env.set /\ env.val \in { <<"0">>, <<"0", "s">>, <<"0", "h">>, <<"-", "0">> } => tmo = 0)
      /\ (env.set /\ env.val = <<"1", "5", "s">> => tmo = 15 * 1000)
      /\ (env.set /\ env.val = <<"1", "h">> => tmo = 60 * 60 * 1000)
      /\ (env.set /\ env.val = <<"-", "1", "s">> => tmo = 0 - 1000)
      /\ (env.set /\ env.val \in { <<"1", "5">>, <<"x">>, <<"1", "x">>, <<"s">>, <<"-">>,
                                   <<"1", "s", "1">>, <<"1", "-", "s">> }
            => tmo = 5 * 60 * 1000)

\* A zero duration was set and returned.
C30_Witness ==
  /\ hpc = "timeout"
  /\ env = [set |-> TRUE, val |-> <<"0", "s">>]
  /\ tmo = 0

\* C29: ensureValidCleanupContext always returns a context that carries a deadline
\* of the cleanup timeout; when the parent is already cancelled or past its
\* deadline, the returned context descends from a fresh root and is neither
\* cancelled nor expired when it is returned.
C29_FreshUnexpiredContext ==
  hpc = "context" =>
    /\ cctx.hasDeadline
    /\ cctx.remaining = tmo
    /\ (parent.err # Nil => cctx.root = "todo" /\ cctx.err = Nil)

\* The remote calls run's goroutine has issued inside CreateResources.
CreateCalls == SelectSeq(calls["main"], LAMBDA c : c.op = "Create")

\* C31: the remote calls of CreateResources are, in this order, the pod lookup,
\* the template list and the instance create; every call but the last one
\* succeeded, a failed discovery is followed by no create, the error of the
\* failed step is returned wrapped in that step's message, and a runner name is
\* recorded only once the create call has succeeded.
C31_CreateStopsAtFirstFailure ==
  harness = "main" =>
    LET cs == CreateCalls
        n == Len(cs)
    IN
      /\ n <= 3
      /\ \A i \in DOMAIN cs :
           /\ cs[i].verb = << "get", "list", "create" >>[i]
           /\ i < n => cs[i].err = Nil
      /\ (pc["main"] \in CreatePcs \cup {"run_after_create"}
          /\ frame["main"].discErr \notin {Nil, Unset}) =>
           /\ n = 2
           /\ pc["main"] = "run_after_create"
           /\ ret.create = Wrap(frame["main"].discErr, "failed to discover RGD")
      /\ (ret.create # Unset /\ n >= 1 /\ cs[n].err # Nil) =>
           /\ n = 1 => ret.create =
                Wrap(cs[n].err, "failed to get orchestrator pod for owner reference")
           /\ n = 2 => ret.create =
                Wrap(Wrap(cs[n].err, "failed to list RGDs"), "failed to discover RGD")
           /\ n = 3 => ret.create = Wrap(cs[n].err, "failed to create ResourceGraph instance")
      /\ ret.create = Nil => (n = 3 /\ cs[3].err = Nil)
      /\ RecordedNames[1] # "" => (n = 3 /\ cs[3].err = Nil)

C31_Witness ==
  /\ harness = "main"
  /\ pc["main"] = "run_after_create"
  /\ ~ctxDone
  /\ Len(CreateCalls) = 2
  /\ CreateCalls[1].err = Nil
  /\ CreateCalls[2].err = RemoteError
  /\ Len(ret.create) = 3
  /\ appContext = <<>>

\* How many calls of the verb goroutine t has issued inside the operation,
\* against the secrets (secret = TRUE) or against anything else.
CallCount(t, op, verb, secret) ==
  Len(SelectSeq(calls[t], LAMBDA c :
        c.op = op /\ c.verb = verb /\ ((c.resource = SecretResource) = secret)))

\* C32: no operation repeats a remote call. Each goroutine invokes an operation
\* at most once, and inside it CreateResources issues at most one pod lookup, one
\* template list and one create; WaitForResourceGraph at most one template list
\* and one watch; DeleteResources at most one template list, one instance delete
\* and one secret delete; a failed call is the last call of its operation unless
\* the operation is DeleteResources.
C32_NoRetries ==
  \A t \in Threads :
    /\ CallCount(t, "Create", "get", FALSE) <= 1
    /\ CallCount(t, "Create", "list", FALSE) <= 1
    /\ CallCount(t, "Create", "create", FALSE) <= 1
    /\ CallCount(t, "Wait", "list", FALSE) <= 1
    /\ CallCount(t, "Wait", "watch", FALSE) <= 1
    /\ CallCount(t, "Delete", "list", FALSE) <= 1
    /\ CallCount(t, "Delete", "delete", FALSE) <= 1
    /\ CallCount(t, "Delete", "delete", TRUE) <= 1
    /\ Len(calls[t]) =
         CallCount(t, "Create", "get", FALSE) + CallCount(t, "Create", "list", FALSE)
         + CallCount(t, "Create", "create", FALSE) + CallCount(t, "Wait", "list", FALSE)
         + CallCount(t, "Wait", "watch", FALSE) + CallCount(t, "Delete", "list", FALSE)
         + CallCount(t, "Delete", "delete", FALSE) + CallCount(t, "Delete", "delete", TRUE)
    /\ \A i \in DOMAIN calls[t] :
         (calls[t][i].err # Nil /\ calls[t][i].op # "Delete") =>
           \A j \in DOMAIN calls[t] : j > i => calls[t][j].op # calls[t][i].op

C32_Witness ==
  /\ harness = "main"
  /\ pc["main"] = "done"
  /\ ~ctxDone
  /\ Len(calls["main"]) = 4
  /\ calls["main"][4].op = "Wait"
  /\ calls["main"][4].verb = "list"
  /\ calls["main"][4].err = RemoteError
  /\ runErr \notin {Nil, Unset}

\* The secret delete calls goroutine t has issued.
SecretDeletes(t) ==
  SelectSeq(calls[t], LAMBDA c : c.verb = "delete" /\ c.resource = SecretResource)

\* DeleteResources of goroutine t has returned to its caller.
DeleteDone(t) ==
  IF t = "main" THEN pc[t] \in {"run_after_delete", "done"} /\ ret.delete # Unset
  ELSE pc[t] = "cleanup_done"

\* C33: when DeleteResources returns, it has issued exactly one secret delete,
\* naming the secret, if the secret name it read from the runner context is not
\* empty, whether its discovery or its instance delete failed or not; it has
\* issued none if that name is empty.
C33_SecretDeleteIffRecorded ==
  \A t \in Threads :
    (harness \in {"main", "preset"} /\ DeleteDone(t)) =>
      IF frame[t].secretName # ""
      THEN /\ Len(SecretDeletes(t)) = 1
           /\ SecretDeletes(t)[1].name = frame[t].secretName
           /\ SecretDeletes(t)[1].op = "Delete"
           /\ calls[t][Len(calls[t])] = SecretDeletes(t)[1]
      ELSE SecretDeletes(t) = <<>>

\* The secret was deleted although discovery had failed.
C33_Witness ==
  /\ harness = "preset"
  /\ DeleteDone("main")
  /\ frame["main"].secretName = "jit"
  /\ frame["main"].discErr \notin {Nil, Unset}
  /\ Len(calls["main"]) = 2
  /\ calls["main"][2].resource = SecretResource
  /\ calls["main"][2].name = "jit"
  /\ ret.delete = Nil

\* An object event that ends the wait: state FAILED or DELETED, or ACTIVE with
\* ResourcesReady=True.
Terminal(ev) ==
  /\ ev.isObj
  /\ \/ ev.state \in {"FAILED", "DELETED"}
     \/ ev.state = "ACTIVE" /\ ResourcesReady(ev)

\* The watch calls WaitForResourceGraph has issued.
WatchCalls == SelectSeq(calls["main"], LAMBDA c : c.verb = "watch")

\* C34: once its watch is open, WaitForResourceGraph returns only on a watch
\* Error event, on a terminal status event or on the cancellation of its
\* context. The zero event of a closed result channel, which carries no object,
\* does not make it return and does not make it open the watch again: the loop
\* is back at its select, the one watch still unstopped.
C34_LoopEndsOnlyOnErrorTerminalOrCancel ==
  KroHarness =>
    /\ (pc["main"] = "run_after_wait" /\ watcher = "stopped") =>
         \/ lastEvent.type = "Error"
         \/ Terminal(lastEvent)
         \/ lastEvent = NoEvent /\ ctxDone /\ ret.wait = ContextCanceled
    /\ (~lastEvent.isObj /\ lastEvent.type \notin {"Error", "<none>"}) =>
         /\ pc["main"] = "wait_loop"
         /\ ret.wait = Unset
         /\ watcher = "open"
         /\ Len(WatchCalls) = 1
    /\ Len(WatchCalls) <= 1

\* The result channel was closed, again and again, and Wait is still in its loop.
C34_Witness ==
  /\ harness = "main"
  /\ pc["main"] = "wait_loop"
  /\ lastEvent = ClosedEvent
  /\ nEvents = MaxEvents
  /\ ~ctxDone
  /\ watcher = "open"
  /\ ret.wait = Unset

HeldNames ==
  {"", opts.RunnerName} \cup (IF harness = "preset" THEN { RecordedNames[1] } ELSE {})

\* C36: every create, watch and delete against the instances goes to the
\* runner's own namespace; the create names the runner name passed to
\* CreateResources, a watch or delete the runner name its operation read from
\* the runner context; no instance call names anything else.
C36_OnlyOwnInstance ==
  \A t \in Threads :
    /\ \A c \in Range(calls[t]) :
         IsInstanceCall(c) =>
           /\ c.namespace = Namespace
           /\ c.name \in HeldNames
           /\ c.verb = "create" => c.name = opts.RunnerName
    /\ (/\ calls[t] # <<>>
        /\ IsInstanceCall(calls[t][Len(calls[t])])
        /\ calls[t][Len(calls[t])].verb # "create"
        /\ pc[t] \notin {"wait_getctx_init", "del_getctx_init", "wait_list", "del_list"})
       => calls[t][Len(calls[t])].name = frame[t].runnerName

\* Create, watch and delete of one run, all naming the runner.
C36_Witness ==
  /\ harness = "main"
  /\ pc["main"] = "done"
  /\ opts.RunnerName = "r1"
  /\ \E c \in Range(calls["main"]) : c.verb = "create" /\ c.name = "r1" /\ c.namespace = Namespace
  /\ \E c \in Range(calls["main"]) : c.verb = "watch" /\ c.name = "r1" /\ c.namespace = Namespace
  /\ \E c \in Range(calls["main"]) :
       c.verb = "delete" /\ c.name = "r1" /\ c.namespace = Namespace /\ c.err = Nil

\* The create call of this process was refused: an instance of that name exists.
CreateRefused ==
  \E c \in Range(calls["main"]) : c.verb = "create" /\ c.err = AlreadyExists

\* C37: when the instance named runnerName already exists, CreateResources
\* returns the create error wrapped, records no runner context and the process
\* makes no successful write against the backend: run invokes neither Wait nor
\* Delete, and the DeleteResources of the cleanup goroutine, finding no recorded
\* name, issues its delete for the empty name, not for the existing instance.
C37_ExistingInstanceIsLeftAlone ==
  (harness = "main" /\ CreateRefused) =>
    /\ pc["main"] \in {"run_after_create", "done"}
    /\ ret.create = Wrap(AlreadyExists, "failed to create ResourceGraph instance")
    /\ RecordedNames = << "", "" >>
    /\ invoked = << "Create" >>
    /\ \A t \in Threads : \A c \in Range(calls[t]) :
         /\ c.verb \in WriteVerbs => c.err # Nil
         /\ c.verb = "delete" => (c.name = "" /\ c.name # opts.RunnerName)
    /\ pc["main"] = "done" => runErr = Wrap(ret.create, "fail to create resources")

\* The existing instance is still there after the refused create and the
\* cleanup that followed the signal.
C37_Witness ==
  /\ harness = "main"
  /\ CreateRefused
  /\ pc["main"] = "done"
  /\ pc["cleanup"] = "cleanup_done"
  /\ instances = { [resource |-> toResourceName(KindPod), name |-> "r1"] }
  /\ \E c \in Range(calls["cleanup"]) : c.verb = "delete" /\ c.name = "" /\ c.err = NotFound
  /\ appContext = NewAppContext("", "")

\* The two characters are the same letter, in the same or in different case.
SameLetter(c, d) == c = d \/ {c, d} = {"P", "p"}

\* The two kinds differ at most in the case of their letters.
SameButCase(a, b) ==
  /\ Len(a) = Len(b)
  /\ \A i \in DOMAIN a : SameLetter(a[i], b[i])

\* C38: toResourceName(kind) is the kind with every letter in lower case,
\* followed by "s", for every kind: "s" for the empty kind, one more "s" for a
\* kind that ends in "s"; two kinds that differ only in letter case are given
\* the same resource name.
C38_LowercasePlusS ==
  hpc = "named" =>
    /\ \A n \in 1..2 :
         LET k == kinds[n]
             r == names[n]
         IN /\ Len(r) = Len(k) + 1
            /\ r[Len(r)] = "s"
            /\ \A i \in DOMAIN k : SameLetter(r[i], k[i]) /\ r[i] # "P"
            /\ k = <<>> => r = << "s" >>
            /\ k = << "P", "p", "s" >> => r = << "p", "p", "s", "s" >>
    /\ SameButCase(kinds[1], kinds[2]) => names[1] = names[2]

\* Two kinds that differ in case only, named alike.
C38_Witness ==
  /\ hpc = "named"
  /\ kinds = << << "P", "p", "s" >>, << "p", "P", "s" >> >>
  /\ names = << << "p", "p", "s", "s" >>, << "p", "p", "s", "s" >> >>

====
